---- MODULE Spec2Model ----
(***************************************************************************)
(* Model of the contract extraction pipeline of parse_contract.py.         *)
(*                                                                         *)
(* A document text is represented by what the regular expressions of the  *)
(* module find in it: for every field, the captures of every rule in      *)
(* declaration order and, within a rule, in order of position; the two    *)
(* document-type markers; the first capture of the signing-date pattern   *)
(* and of the two duration patterns.  Strings are tokens: a token records *)
(* the shape of the string (DD/MM/YYYY digits, a number, other text) and  *)
(* whether it carries surrounding white space.                            *)
(***************************************************************************)
EXTENDS Integers, Sequences, FiniteSets, TLC

VARIABLES
    pc,             \* position inside parse_contract
    text,           \* text returned by _get_text
    ocr_used,       \* second component returned by _get_text
    fields,         \* dict fields of parse_contract
    scores,         \* dict scores of parse_contract
    doc_type,       \* result of _detect_doc_type
    llm_calls,      \* number of calls of _llm_extract_fields so far
    llm_requested,  \* missing_fields of the last call of _llm_extract_fields
    llm_outcome,    \* what the external service did in that call
    result,         \* value returned by parse_contract
    padsYear,       \* whether the platform's strftime zero-pads %Y
    mf_field,       \* argument field of a single _match_field call
    mf_rules,       \* captures the rules of that field find in its text
    mf_result,      \* result of that _match_field call
    gt_input,       \* file and installation a single _get_text call runs on
    gt_result,      \* what that _get_text call returned
    gt_tried,       \* the OCR calls that _get_text call made, per page
    employees,      \* rows of table employees, in the order they were inserted
    eid_seq,        \* last value of sequence eid_seq
    full_name_required, \* column full_name of the table is NOT NULL
    calls,          \* the upsert_employee calls made so far and their outcome
    rv_scores,      \* argument scores of a _build_needs_review call
    rv_needs_review, \* what that _build_needs_review call returned
    rv_exceptions,  \* what a fetch_exceptions call returned
    hr_api_key,     \* environment variable HR_API_KEY of the server
    sqlite_employees, \* table employees of the SQLite file DB_PATH
    request,        \* the last HTTP request handled
    response,       \* the response to it
    handler_calls,  \* functions the handlers called while handling it
    served,         \* number of requests handled so far
    jo_text,        \* argument text of a single _extract_job_offer_dates call
    jo_result,      \* what that _extract_job_offer_dates call returned
    dt_text,        \* argument text of a single _detect_doc_type call
    dt_result,      \* what that _detect_doc_type call returned
    ps_pc,          \* position inside a single _parse_and_store call
    ps_upload,      \* arguments contents and filename of that call
    ps_exception,   \* an exception of parse_contract is in flight
    tmp_files,      \* the files of the temporary directory
    fo_pc,          \* position inside a single ingest_folder call
    fo_pdfs,        \* the PDF files of the folder, sorted
    fo_done,        \* number of files the loop has gone through
    fo_summary,     \* counters total, stored, partial, failed of that call
    tx_pc,          \* position of each concurrent upsert_employee call
    tx_doc,         \* arguments of each of those calls
    tx_employee_id, \* employee_id of each call: of the row found or drawn from the sequence
    tx_pending      \* the write of each call's transaction not yet committed

vars == <<pc, text, ocr_used, fields, scores, doc_type, llm_calls,
          llm_requested, llm_outcome, result, padsYear,
          mf_field, mf_rules, mf_result, gt_input, gt_result, gt_tried,
          employees, eid_seq, full_name_required, calls,
          rv_scores, rv_needs_review, rv_exceptions,
          hr_api_key, sqlite_employees, request, response, handler_calls,
          served,
          jo_text, jo_result,
          dt_text, dt_result,
          ps_pc, ps_upload, ps_exception, tmp_files,
          fo_pc, fo_pdfs, fo_done, fo_summary,
          tx_pc, tx_doc, tx_employee_id, tx_pending>>

pipeVars == <<pc, text, ocr_used, fields, scores, doc_type, llm_calls,
              llm_requested, llm_outcome, result>>

mfVars == <<mf_field, mf_rules, mf_result>>

gtVars == <<gt_input, gt_result, gt_tried>>

dbVars == <<employees, eid_seq, full_name_required, calls>>

rvVars == <<rv_scores, rv_needs_review, rv_exceptions>>

apiVars == <<hr_api_key, sqlite_employees, request, response, handler_calls,
             served>>

joVars == <<jo_text, jo_result>>

dtVars == <<dt_text, dt_result>>

psVars == <<ps_pc, ps_upload, ps_exception, tmp_files>>

foVars == <<fo_pc, fo_pdfs, fo_done, fo_summary>>

txVars == <<tx_pc, tx_doc, tx_employee_id, tx_pending>>

---------------------------------------------------------------------------
(* Field tables                                                            *)

PatternFieldSeq ==
    << "full_name", "nationality", "date_of_birth", "passport_number",
       "job_title", "base_salary", "total_salary", "contract_start_date",
       "contract_expiry_date", "mohre_transaction_no" >>

PatternFields == { PatternFieldSeq[i] : i \in DOMAIN PatternFieldSeq }

AllFields == PatternFields \cup {"insurance_status"}

DATE_FIELDS == {"date_of_birth", "contract_start_date", "contract_expiry_date"}

DECIMAL_FIELDS == {"base_salary", "total_salary"}

TextFields == PatternFields \ (DATE_FIELDS \cup DECIMAL_FIELDS)

_LLM_FIELD_DEFS == PatternFields

\* Number of (pattern, flags) rules PATTERNS declares for a field.
RuleCount(f) ==
    CASE f = "full_name"            -> 1
      [] f = "nationality"          -> 3
      [] f = "date_of_birth"        -> 5
      [] f = "passport_number"      -> 2
      [] f = "job_title"            -> 1
      [] f = "base_salary"          -> 1
      [] f = "total_salary"         -> 1
      [] f = "contract_start_date"  -> 6
      [] f = "contract_expiry_date" -> 7
      [] f = "mohre_transaction_no" -> 2

ScoreRegex == 100

ScoreDerived == 85

ScoreNone == 0

---------------------------------------------------------------------------
(* Tokens (strings) and values                                             *)

RawDMY(d, m, y) == [form |-> "dmy", pad |-> FALSE, d |-> d, m |-> m, y |-> y]

RawNum(n) == [form |-> "num", pad |-> FALSE, n |-> n]

RawText(s) == [form |-> "text", pad |-> FALSE, s |-> s]

Padded(tok) == [tok EXCEPT !.pad = TRUE]

\* str.strip()
Strip(tok) == [tok EXCEPT !.pad = FALSE]

Null == [k |-> "null"]

IsLeap(y) == (y % 4 = 0 /\ y % 100 # 0) \/ y % 400 = 0

DaysInMonth(m, y) ==
    IF m = 2 THEN (IF IsLeap(y) THEN 29 ELSE 28)
    ELSE IF m \in {4, 6, 9, 11} THEN 30 ELSE 31

ValidDate(d, m, y) ==
    /\ y \in 1..9999
    /\ m \in 1..12
    /\ d \in 1..DaysInMonth(m, y)

\* Number of characters strftime("%Y") writes for year y.
YearWidth(y, pads) ==
    IF pads \/ y >= 1000 THEN 4
    ELSE IF y >= 100 THEN 3 ELSE IF y >= 10 THEN 2 ELSE 1

\* datetime.strptime(value, "%d/%m/%Y") succeeds
ParsesDMY(tok) ==
    /\ tok.form = "dmy"
    /\ ~tok.pad
    /\ ValidDate(tok.d, tok.m, tok.y)

\* The string strftime("%Y-%m-%d") writes for a date.
IsoString(d, m, y, pads) ==
    [k |-> "date", y |-> y, m |-> m, d |-> d, yw |-> YearWidth(y, pads)]

\* _to_iso; defined where ParsesDMY holds, ValueError elsewhere
_to_iso(tok, pads) == IsoString(tok.d, tok.m, tok.y, pads)

\* float(raw) succeeds for a string
FloatOk(tok) == tok.form = "num"

NumVal(tok) == [k |-> "num", n |-> tok.n]

TextVal(tok) == [k |-> "text", tok |-> tok]

\* a string of the form YYYY-MM-DD naming a calendar date
IsIsoDate(v) ==
    /\ v.k = "date"
    /\ v.yw = 4
    /\ ValidDate(v.d, v.m, v.y)

---------------------------------------------------------------------------
(* _match_field                                                            *)

\* the inner loop ran out of occurrences / the outer loop ran out of rules
FellThrough == [fell |-> TRUE]

Matched(value, score) == [value |-> value, score |-> score]

\* mutant: re.search in place of re.finditer, one occurrence per rule
MatchFirstOccurrenceOnly(field, caps, i, pads) ==
    IF i > Len(caps) THEN FellThrough
    ELSE LET raw == Strip(caps[i]) IN
         IF field \in DATE_FIELDS
         THEN IF ParsesDMY(raw) THEN Matched(_to_iso(raw, pads), ScoreRegex)
              ELSE FellThrough
         ELSE IF field \in DECIMAL_FIELDS
         THEN IF FloatOk(raw) THEN Matched(NumVal(raw), ScoreRegex)
              ELSE FellThrough
         ELSE Matched(TextVal(raw), ScoreRegex)

RECURSIVE MatchOccurrences(_, _, _, _)
\* for m in re.finditer(pattern, text, flags): occurrences i.. of one rule
MatchOccurrences(field, caps, i, pads) ==
    IF i > Len(caps) THEN FellThrough
    ELSE LET raw == Strip(caps[i]) IN
         IF field \in DATE_FIELDS
         THEN IF ParsesDMY(raw) THEN Matched(_to_iso(raw, pads), ScoreRegex)
              ELSE MatchOccurrences(field, caps, i + 1, pads)
         ELSE IF field \in DECIMAL_FIELDS
         THEN IF FloatOk(raw) THEN Matched(NumVal(raw), ScoreRegex)
              ELSE MatchOccurrences(field, caps, i + 1, pads)
         ELSE Matched(TextVal(raw), ScoreRegex)

RECURSIVE MatchRules(_, _, _, _)
\* for pattern, flags in PATTERNS[field]: rules r.. of the field
MatchRules(field, rules, r, pads) ==
    IF r > Len(rules) THEN Matched(Null, ScoreNone)
    ELSE LET got == MatchOccurrences(field, rules[r], 1, pads) IN
         IF got # FellThrough THEN got
         ELSE MatchRules(field, rules, r + 1, pads)

\* _match_field(field, text): txt.caps[field] are the captures in the text
_match_field(field, txt, pads) == MatchRules(field, txt.caps[field], 1, pads)

---------------------------------------------------------------------------
(* _detect_doc_type                                                        *)

_detect_doc_type(txt) ==
    IF txt.hasEC THEN "employment_contract"
    ELSE IF txt.hasJO THEN "job_offer"
    ELSE "unknown"

---------------------------------------------------------------------------
(* _extract_job_offer_dates                                                *)

_YEAR_WORDS == [w \in {"one", "two", "three", "four", "five"} |->
                 CASE w = "one" -> 1 [] w = "two" -> 2 [] w = "three" -> 3
                   [] w = "four" -> 4 [] w = "five" -> 5]

MAXYEAR == 9999

NoYears == 0

\* first loop: the signing date in ISO form, or Null
SigningIso(txt, pads) ==
    IF txt.signing # <<>> /\ ParsesDMY(txt.signing[1])
    THEN _to_iso(txt.signing[1], pads)
    ELSE Null

\* second loop: the duration in years; 0 stands for None as well, both
\* being false in "if years" and "if not years"
DurationYears(txt) ==
    LET first == IF txt.durDigits # <<>> THEN txt.durDigits[1] ELSE NoYears IN
    IF first # NoYears THEN first
    ELSE IF txt.durWord # <<>> THEN _YEAR_WORDS[txt.durWord[1]]
    ELSE first

JoDates(start, expiry) == [raised |-> FALSE, start |-> start, expiry |-> expiry]

JoRaised == [raised |-> TRUE, start |-> Null, expiry |-> Null]

\* start_dt.replace(year=start_dt.year + years), day 28 on ValueError
ExpiryOf(start, years, pads) ==
    LET y == start.y + years IN
    IF start.yw # 4 THEN JoRaised          \* strptime(start_iso, "%Y-%m-%d")
    ELSE IF y > MAXYEAR THEN JoRaised      \* both replace calls raise
    ELSE IF ValidDate(start.d, start.m, y)
         THEN JoDates(start, IsoString(start.d, start.m, y, pads))
         ELSE JoDates(start, IsoString(28, start.m, y, pads))

_extract_job_offer_dates(txt, pads) ==
    LET start == SigningIso(txt, pads)
        years == DurationYears(txt)
    IN  IF start = Null THEN JoDates(Null, Null)
        ELSE IF years = NoYears THEN JoDates(start, Null)
        ELSE ExpiryOf(start, years, pads)

---------------------------------------------------------------------------
(* _llm_extract_fields                                                     *)

ScoreLlm == 85

JNull == [j |-> "null"]

JStr(tok) == [j |-> "str", tok |-> tok]

JNum(n) == [j |-> "num", n |-> n]

JList == [j |-> "list"]

\* str(val)
Str(val) ==
    IF val.j = "str" THEN val.tok
    ELSE IF val.j = "num" THEN RawNum(val.n)
    ELSE RawText("[]")

\* raw.get(field)
RawGet(raw, field) == IF field \in DOMAIN raw THEN raw[field] ELSE JNull

\* mutant: a value that fails conversion is kept as the model wrote it
LlmTypedKeepsRaw(field, val, pads) ==
    IF val = JNull THEN Matched(Null, ScoreNone)
    ELSE IF field \in DATE_FIELDS
    THEN IF ParsesDMY(Str(val)) THEN Matched(_to_iso(Str(val), pads), ScoreLlm)
         ELSE Matched(TextVal(Str(val)), ScoreNone)
    ELSE IF field \in DECIMAL_FIELDS
    THEN IF val.j = "num" THEN Matched([k |-> "num", n |-> val.n], ScoreLlm)
         ELSE IF val.j = "str" /\ FloatOk(val.tok) THEN Matched(NumVal(val.tok), ScoreLlm)
         ELSE Matched(TextVal(Str(val)), ScoreNone)
    ELSE Matched(TextVal(Strip(Str(val))), ScoreLlm)

\* mutant: text answers are not stripped
LlmTypedUnstripped(field, val, pads) ==
    IF val = JNull THEN Matched(Null, ScoreNone)
    ELSE IF field \in DATE_FIELDS
    THEN IF ParsesDMY(Str(val)) THEN Matched(_to_iso(Str(val), pads), ScoreLlm)
         ELSE Matched(Null, ScoreNone)
    ELSE IF field \in DECIMAL_FIELDS
    THEN IF val.j = "num" THEN Matched([k |-> "num", n |-> val.n], ScoreLlm)
         ELSE IF val.j = "str" /\ FloatOk(val.tok) THEN Matched(NumVal(val.tok), ScoreLlm)
         ELSE Matched(Null, ScoreNone)
    ELSE Matched(TextVal(Str(val)), ScoreLlm)

\* the body of the loop over missing_fields
LlmTyped(field, val, pads) ==
    IF val = JNull THEN Matched(Null, ScoreNone)
    ELSE IF field \in DATE_FIELDS
    THEN IF ParsesDMY(Str(val)) THEN Matched(_to_iso(Str(val), pads), ScoreLlm)
         ELSE Matched(Null, ScoreNone)
    ELSE IF field \in DECIMAL_FIELDS
    THEN IF val.j = "num" THEN Matched([k |-> "num", n |-> val.n], ScoreLlm)
         ELSE IF val.j = "str" /\ FloatOk(val.tok) THEN Matched(NumVal(val.tok), ScoreLlm)
         ELSE Matched(Null, ScoreNone)
    ELSE Matched(TextVal(Strip(Str(val))), ScoreLlm)

ToSet(seq) == { seq[i] : i \in DOMAIN seq }

LlmEmpty == [raised |-> FALSE, results |-> [f \in {} |-> Matched(Null, ScoreNone)]]

LlmRaised == [raised |-> TRUE, results |-> [f \in {} |-> Matched(Null, ScoreNone)]]

\* mutant: the loop runs over the keys of the answer, not over missing_fields
LlmAnsweredAllKeys(missing_fields, out, pads) ==
    IF out.kind = "call_failed" THEN LlmEmpty
    ELSE IF out.kind = "not_object" THEN LlmRaised
    ELSE [raised  |-> FALSE,
          results |-> [f \in DOMAIN out.raw \cap PatternFields |->
                          LlmTyped(f, out.raw[f], pads)]]

\* variant: every key of the answer is returned
LlmAnsweredForeignKeys(missing_fields, out, pads) ==
    IF out.kind = "call_failed" THEN LlmEmpty
    ELSE IF out.kind = "not_object" THEN LlmRaised
    ELSE [raised  |-> FALSE,
          results |-> [f \in DOMAIN out.raw |->
                          LlmTyped(f, out.raw[f], pads)]]

\* the part of _llm_extract_fields after the request was answered
LlmAnswered(missing_fields, out, pads) ==
    IF out.kind = "call_failed" THEN LlmEmpty
    ELSE IF out.kind = "not_object" THEN LlmRaised   \* raw.get: AttributeError
    ELSE [raised  |-> FALSE,
          results |-> [f \in ToSet(missing_fields) |->
                          LlmTyped(f, RawGet(out.raw, f), pads)]]

\* _llm_extract_fields(text, missing_fields); out is what the environment
\* does: library missing, no key, the call or json.loads raising, a JSON
\* value that is no object, a JSON object raw
_llm_extract_fields(txt, missing_fields, out, pads) ==
    IF out.kind = "no_library" \/ out.kind = "no_key" \/ missing_fields = <<>>
    THEN LlmEmpty
    ELSE IF ToSet(missing_fields) \cap _LLM_FIELD_DEFS = {} THEN LlmEmpty
    ELSE LlmAnswered(missing_fields, out, pads)

---------------------------------------------------------------------------
(* Texts                                                                   *)

NoCaptures(f) == [r \in 1..RuleCount(f) |-> <<>>]

\* the empty string: no rule, marker or pattern matches
EmptyText ==
    [caps      |-> [f \in PatternFields |-> NoCaptures(f)],
     hasEC     |-> FALSE,
     hasJO     |-> FALSE,
     signing   |-> <<>>,
     durDigits |-> <<>>,
     durWord   |-> <<>>]

\* state of parse_contract before any call
NoResult == [returned |-> FALSE]

NotCalled == [kind |-> "not_called"]

PipeIdle ==
    /\ pc = "idle"
    /\ text = EmptyText
    /\ ocr_used = FALSE
    /\ fields = << >>
    /\ scores = << >>
    /\ doc_type = "unset"
    /\ llm_calls = 0
    /\ llm_requested = << >>
    /\ llm_outcome = NotCalled
    /\ result = NoResult

MfPending == [pending |-> TRUE]

MfIdle ==
    /\ mf_field = "none"
    /\ mf_rules = << >>
    /\ mf_result = MfPending

GtPending == [pending |-> TRUE]

GtIdle ==
    /\ gt_input = [suffix |-> "none"]
    /\ gt_result = GtPending
    /\ gt_tried = << >>

NoRequest == [endpoint |-> "none"]

NoResponse == [status |-> 0]

\* a server no request was sent to
ApiIdle ==
    /\ hr_api_key = ""
    /\ sqlite_employees = [exists |-> FALSE]
    /\ request = NoRequest
    /\ response = NoResponse
    /\ handler_calls = {}
    /\ served = 0

RvPending == [pending |-> TRUE]

RvIdle ==
    /\ rv_scores = RvPending
    /\ rv_needs_review = RvPending
    /\ rv_exceptions = RvPending

JoPending == [pending |-> TRUE]

JoIdle ==
    /\ jo_text = EmptyText
    /\ jo_result = JoPending

DtIdle ==
    /\ dt_text = << >>
    /\ dt_result = "unset"

\* no call of _parse_and_store and an empty temporary directory
PsIdle ==
    /\ ps_pc = "idle"
    /\ ps_upload = [filename |-> "none"]
    /\ ps_exception = FALSE
    /\ tmp_files = {}

\* no call of ingest_folder
FoIdle ==
    /\ fo_pc = "idle"
    /\ fo_pdfs = << >>
    /\ fo_done = 0
    /\ fo_summary = [total |-> 0, stored |-> 0, partial |-> 0, failed |-> 0]

\* the two connections of concurrent upsert_employee calls
Txs == {1, 2}

NoWrite == [kind |-> "none"]

\* no concurrent calls
TxIdle ==
    /\ tx_pc = [t \in Txs |-> "idle"]
    /\ tx_doc = [t \in Txs |-> Null]
    /\ tx_employee_id = [t \in Txs |-> Null]
    /\ tx_pending = [t \in Txs |-> NoWrite]

\* an empty database nothing is stored in
DbIdle ==
    /\ employees = << >>
    /\ eid_seq = 0
    /\ full_name_required = TRUE
    /\ calls = << >>

---------------------------------------------------------------------------
(* Documents the pipeline is run on                                        *)

\* one capture of the first rule of a field
OneCapture(f, tok) == [NoCaptures(f) EXCEPT ![1] = <<tok>>]

GoodBirth == RawDMY(29, 11, 1999)

GarbledBirth == RawDMY(99, 11, 1999)

\* a date of a year before 1000, as OCR noise can produce
OldDate == RawDMY(1, 1, 999)

GoodStart == RawDMY(16, 7, 2025)

GoodExpiry == RawDMY(15, 7, 2027)

LeapSigning == RawDMY(29, 2, 2024)

\* sections of the contract template and the fields printed in them
Sections ==
    [personal  |-> {"full_name", "nationality", "passport_number"},
     job       |-> {"job_title"},
     salary    |-> {"base_salary", "total_salary"},
     reference |-> {"mohre_transaction_no"}]

SectionNames == DOMAIN Sections

SectionToken(f) ==
    CASE f = "full_name"            -> Padded(RawText("FRANK OKELLO"))
      [] f = "nationality"          -> RawText("UGANDAN")
      [] f = "passport_number"      -> RawText("A00580269")
      [] f = "job_title"            -> RawText("Launderer")
      [] f = "base_salary"          -> RawNum(3000)
      [] f = "total_salary"         -> RawNum(5000)
      [] f = "mohre_transaction_no" -> RawText("MB123456")

BirthChoices ==
    { NoCaptures("date_of_birth"),
      [NoCaptures("date_of_birth") EXCEPT ![4] = <<GarbledBirth, GoodBirth>>],
      [NoCaptures("date_of_birth") EXCEPT ![1] = <<GarbledBirth>>],
      OneCapture("date_of_birth", OldDate) }

StartChoices ==
    { NoCaptures("contract_start_date"),
      OneCapture("contract_start_date", GoodStart) }

ExpiryChoices ==
    { NoCaptures("contract_expiry_date"),
      OneCapture("contract_expiry_date", GoodExpiry) }

SigningChoices == { <<>>, <<LeapSigning>>, <<GarbledBirth>>, <<OldDate>> }

\* first captures of the digit and of the word duration pattern
DurationChoices ==
    { [digits |-> <<>>, word |-> <<>>],
      [digits |-> <<2>>, word |-> <<>>],
      [digits |-> <<0>>, word |-> <<"four">>],
      [digits |-> <<>>, word |-> <<"one">>],
      [digits |-> <<8000>>, word |-> <<>>] }

\* the text in which the sections of present are readable
MakeText(present, birth, start, expiry, ec, jo, signing, dur) ==
    [caps |-> [f \in PatternFields |->
                 IF f = "date_of_birth" THEN birth
                 ELSE IF f = "contract_start_date" THEN start
                 ELSE IF f = "contract_expiry_date" THEN expiry
                 ELSE IF \E sec \in present : f \in Sections[sec]
                      THEN OneCapture(f, SectionToken(f))
                      ELSE NoCaptures(f)],
     hasEC     |-> ec,
     hasJO     |-> jo,
     signing   |-> signing,
     durDigits |-> dur.digits,
     durWord   |-> dur.word]

\* contracts: any sections readable, any birth date, no job-offer clauses
ContractTexts ==
    { MakeText(present, birth, start, expiry, ec, FALSE, <<>>,
               [digits |-> <<>>, word |-> <<>>]) :
        present \in SUBSET SectionNames, birth \in BirthChoices,
        start \in StartChoices, expiry \in ExpiryChoices, ec \in BOOLEAN }

\* job offers and look-alikes: any marker, signing date and duration, all
\* sections readable or none
OfferTexts ==
    { MakeText(present, NoCaptures("date_of_birth"), start, expiry, ec, jo,
               signing, dur) :
        present \in {{}, SectionNames},
        start \in StartChoices, expiry \in ExpiryChoices,
        ec \in BOOLEAN, jo \in BOOLEAN,
        signing \in SigningChoices, dur \in DurationChoices }

Texts == ContractTexts \cup OfferTexts

\* answers of the external model: a JSON object keyed by field name
GoodAnswer(f) ==
    IF f \in DATE_FIELDS THEN JStr(RawDMY(1, 3, 2024))
    ELSE IF f \in DECIMAL_FIELDS THEN JNum(4200)
    ELSE JStr(Padded(RawText("Welder")))

BadAnswer(f) ==
    IF f \in DATE_FIELDS THEN JStr(Padded(RawDMY(1, 3, 2024)))
    ELSE IF f \in DECIMAL_FIELDS THEN JStr(RawText("4,200 AED"))
    ELSE JList

OldAnswer(f) ==
    IF f \in DATE_FIELDS THEN JStr(OldDate)
    ELSE IF f \in DECIMAL_FIELDS THEN JStr(Padded(RawNum(4200)))
    ELSE JNum(7)

LlmObjects ==
    { [f \in {} |-> JNull],
      [f \in AllFields |-> JNull],
      [f \in AllFields |-> GoodAnswer(f)],
      [f \in AllFields |-> BadAnswer(f)],
      [f \in AllFields |-> OldAnswer(f)],
      [f \in {"job_title"} |-> JStr(RawText("Welder"))],
      [f \in AllFields \cup {"employer_name"} |-> GoodAnswer(f)] }

NoRaw == [f \in {} |-> JNull]

LlmOutcomes ==
    { [kind |-> k, raw |-> NoRaw] :
        k \in {"no_library", "no_key", "call_failed", "not_object"} }
    \cup { [kind |-> "object", raw |-> raw] : raw \in LlmObjects }

---------------------------------------------------------------------------
(* parse_contract                                                          *)

ScoreInsurance == 100

Init ==
    /\ pc = "start"
    /\ text = EmptyText
    /\ ocr_used = FALSE
    /\ fields = [f \in {} |-> Null]
    /\ scores = [f \in {} |-> ScoreNone]
    /\ doc_type = "unset"
    /\ llm_calls = 0
    /\ llm_requested = << >>
    /\ llm_outcome = NotCalled
    /\ result = NoResult
    /\ padsYear \in BOOLEAN
    /\ MfIdle
    /\ GtIdle
    /\ DbIdle
    /\ RvIdle
    /\ ApiIdle
    /\ JoIdle
    /\ DtIdle
    /\ PsIdle
    /\ FoIdle
    /\ TxIdle

\* text, ocr_used = _get_text(file_path)
GetText ==
    /\ pc = "start"
    /\ text' \in Texts
    /\ ocr_used' \in BOOLEAN
    /\ pc' = "match"
    /\ UNCHANGED <<fields, scores, doc_type, llm_calls, llm_requested,
                   llm_outcome, result, padsYear>>
    /\ UNCHANGED mfVars
    /\ UNCHANGED gtVars
    /\ UNCHANGED dbVars
    /\ UNCHANGED rvVars
    /\ UNCHANGED apiVars
    /\ UNCHANGED joVars
    /\ UNCHANGED dtVars
    /\ UNCHANGED psVars
    /\ UNCHANGED foVars
    /\ UNCHANGED txVars

\* for field in PATTERNS: value, score = _match_field(field, text)
MatchFields ==
    /\ pc = "match"
    /\ fields' = [f \in PatternFields |-> _match_field(f, text, padsYear).value]
    /\ scores' = [f \in PatternFields |-> _match_field(f, text, padsYear).score]
    /\ pc' = "detect"
    /\ UNCHANGED <<text, ocr_used, doc_type, llm_calls, llm_requested,
                   llm_outcome, result, padsYear>>
    /\ UNCHANGED mfVars
    /\ UNCHANGED gtVars
    /\ UNCHANGED dbVars
    /\ UNCHANGED rvVars
    /\ UNCHANGED apiVars
    /\ UNCHANGED joVars
    /\ UNCHANGED dtVars
    /\ UNCHANGED psVars
    /\ UNCHANGED foVars
    /\ UNCHANGED txVars

\* doc_type = _detect_doc_type(text)
DetectDocType ==
    /\ pc = "detect"
    /\ doc_type' = _detect_doc_type(text)
    /\ pc' = "derive"
    /\ UNCHANGED <<text, ocr_used, fields, scores, llm_calls, llm_requested,
                   llm_outcome, result, padsYear>>
    /\ UNCHANGED mfVars
    /\ UNCHANGED gtVars
    /\ UNCHANGED dbVars
    /\ UNCHANGED rvVars
    /\ UNCHANGED apiVars
    /\ UNCHANGED joVars
    /\ UNCHANGED dtVars
    /\ UNCHANGED psVars
    /\ UNCHANGED foVars
    /\ UNCHANGED txVars

\* whether the derived-date block is entered
DerivesDates(dt) == dt = "job_offer"

\* mutant: the derived date is written whatever the field's score
OverwritesAlways(derived, score) == derived # Null

\* whether a derived date is written over a field
Overwrites(derived, score) == derived # Null /\ score = ScoreNone

\* fields and scores after the two assignments of the derived-date block
DerivedFields(jo, fs, sc) ==
    [f \in DOMAIN fs |->
        IF f = "contract_start_date" /\ Overwrites(jo.start, sc[f]) THEN jo.start
        ELSE IF f = "contract_expiry_date" /\ Overwrites(jo.expiry, sc[f]) THEN jo.expiry
        ELSE fs[f]]

\* variant: the derived-date step writes the dates and leaves their scores
DerivedScoresUnscored(jo, sc) == sc

DerivedScores(jo, sc) ==
    [f \in DOMAIN sc |->
        IF f = "contract_start_date" /\ Overwrites(jo.start, sc[f]) THEN ScoreDerived
        ELSE IF f = "contract_expiry_date" /\ Overwrites(jo.expiry, sc[f]) THEN ScoreDerived
        ELSE sc[f]]

\* if doc_type == "job_offer": ... derived dates
DeriveJobOfferDates ==
    /\ pc = "derive"
    /\ IF DerivesDates(doc_type)
       THEN LET jo == _extract_job_offer_dates(text, padsYear) IN
            IF jo.raised
            THEN /\ pc' = "raised"
                 /\ UNCHANGED <<fields, scores>>
            ELSE /\ fields' = DerivedFields(jo, fields, scores)
                 /\ scores' = DerivedScores(jo, scores)
                 /\ pc' = "llm"
       ELSE /\ pc' = "llm"
            /\ UNCHANGED <<fields, scores>>
    /\ UNCHANGED <<text, ocr_used, doc_type, llm_calls, llm_requested,
                   llm_outcome, result, padsYear>>
    /\ UNCHANGED mfVars
    /\ UNCHANGED gtVars
    /\ UNCHANGED dbVars
    /\ UNCHANGED rvVars
    /\ UNCHANGED apiVars
    /\ UNCHANGED joVars
    /\ UNCHANGED dtVars
    /\ UNCHANGED psVars
    /\ UNCHANGED foVars
    /\ UNCHANGED txVars

\* mutant: every field of the result without a score yet counts as missing
MissingWithInsurance(sc) ==
    SelectSeq(Append(PatternFieldSeq, "insurance_status"),
              LAMBDA f : f \notin DOMAIN sc \/ sc[f] = ScoreNone)

\* missing = [f for f in PATTERNS if scores[f] == 0.0]
Missing(sc) == SelectSeq(PatternFieldSeq, LAMBDA f : sc[f] = ScoreNone)

\* the loop over the items of the dict _llm_extract_fields returned
MergeFields(res, fs) ==
    [f \in DOMAIN fs \cup DOMAIN res |->
        IF f \in DOMAIN res THEN res[f].value ELSE fs[f]]

\* mutant: every merged field is scored as a model extraction
MergeScoresTrusting(res, sc) ==
    [f \in DOMAIN sc \cup DOMAIN res |->
        IF f \in DOMAIN res THEN ScoreLlm ELSE sc[f]]

MergeScores(res, sc) ==
    [f \in DOMAIN sc \cup DOMAIN res |->
        IF f \in DOMAIN res THEN res[f].score ELSE sc[f]]

\* if missing: merge _llm_extract_fields(text, missing)
LlmFallback ==
    /\ pc = "llm"
    /\ LET missing == Missing(scores) IN
       IF missing = <<>>
       THEN /\ pc' = "finish"
            /\ UNCHANGED <<fields, scores, llm_calls, llm_requested, llm_outcome>>
       ELSE \E out \in LlmOutcomes :
            LET got == _llm_extract_fields(text, missing, out, padsYear) IN
            /\ llm_calls' = llm_calls + 1
            /\ llm_requested' = missing
            /\ llm_outcome' = out
            /\ IF got.raised
               THEN /\ pc' = "raised"
                    /\ UNCHANGED <<fields, scores>>
               ELSE /\ fields' = MergeFields(got.results, fields)
                    /\ scores' = MergeScores(got.results, scores)
                    /\ pc' = "finish"
    /\ UNCHANGED <<text, ocr_used, doc_type, result, padsYear>>
    /\ UNCHANGED mfVars
    /\ UNCHANGED gtVars
    /\ UNCHANGED dbVars
    /\ UNCHANGED rvVars
    /\ UNCHANGED apiVars
    /\ UNCHANGED joVars
    /\ UNCHANGED dtVars
    /\ UNCHANGED psVars
    /\ UNCHANGED foVars
    /\ UNCHANGED txVars

\* mutant: max in place of min
MaxOf(S) == CHOOSE x \in S : \A y \in S : x >= y

\* min(...) over a nonempty set of scores
MinOf(S) == CHOOSE x \in S : \A y \in S : x <= y

\* required = [k for k in scores if k != "insurance_status"]
Required(sc) == DOMAIN sc \ {"insurance_status"}

Confidence(sc) == MinOf({ sc[k] : k \in Required(sc) })

WithInsurance(fn, v) ==
    [f \in DOMAIN fn \cup {"insurance_status"} |->
        IF f = "insurance_status" THEN v ELSE fn[f]]

\* insurance_status, confidence and the returned dict
Finish ==
    /\ pc = "finish"
    /\ fields' = WithInsurance(fields, Null)
    /\ scores' = WithInsurance(scores, ScoreInsurance)
    /\ result' = [returned     |-> TRUE,
                  fields       |-> fields',
                  field_scores |-> scores',
                  confidence   |-> Confidence(scores'),
                  ocr_used     |-> ocr_used,
                  doc_type     |-> doc_type]
    /\ pc' = "done"
    /\ UNCHANGED <<text, ocr_used, doc_type, llm_calls, llm_requested,
                   llm_outcome, padsYear>>
    /\ UNCHANGED mfVars
    /\ UNCHANGED gtVars
    /\ UNCHANGED dbVars
    /\ UNCHANGED rvVars
    /\ UNCHANGED apiVars
    /\ UNCHANGED joVars
    /\ UNCHANGED dtVars
    /\ UNCHANGED psVars
    /\ UNCHANGED foVars
    /\ UNCHANGED txVars

Next ==
    \/ GetText
    \/ MatchFields
    \/ DetectDocType
    \/ DeriveJobOfferDates
    \/ LlmFallback
    \/ Finish

Spec == Init /\ [][Next]_vars

---------------------------------------------------------------------------
(* A single call of _match_field on bounded captures                       *)

MaxCaptures == 3

MatchDateTokens == {RawDMY(16, 7, 2025), RawDMY(29, 11, 1999), RawDMY(99, 11, 1999)}

MatchTextTokens == {RawText("FRANK"), Padded(RawText("ADIL"))}

MatchNumTokens == {RawNum(3000), RawNum(5000)}

\* strings the rules of a field can capture
MatchTokens(f) ==
    IF f \in DATE_FIELDS THEN MatchDateTokens
    ELSE IF f \in DECIMAL_FIELDS THEN MatchNumTokens
    ELSE MatchTextTokens

RECURSIVE SumUpTo(_, _)
SumUpTo(c, r) == IF r = 0 THEN 0 ELSE c[r] + SumUpTo(c, r - 1)

\* how many occurrences each rule has, at most MaxCaptures in all
CaptureCounts(f) ==
    { c \in [1..RuleCount(f) -> 0..MaxCaptures] :
        SumUpTo(c, RuleCount(f)) <= MaxCaptures }

\* the captures flat, cut into the occurrences of each rule
SplitCaptures(flat, c) ==
    [r \in DOMAIN c |-> SubSeq(flat, SumUpTo(c, r - 1) + 1, SumUpTo(c, r))]

InitMatch ==
    /\ PipeIdle
    /\ padsYear \in BOOLEAN
    /\ mf_field \in PatternFields
    /\ \E c \in CaptureCounts(mf_field) :
         \E flat \in [1..SumUpTo(c, RuleCount(mf_field)) -> MatchTokens(mf_field)] :
            mf_rules = SplitCaptures(flat, c)
    /\ mf_result = MfPending
    /\ GtIdle
    /\ DbIdle
    /\ RvIdle
    /\ ApiIdle
    /\ JoIdle
    /\ DtIdle
    /\ PsIdle
    /\ FoIdle
    /\ TxIdle

\* value, score = _match_field(field, text)
MatchFieldCall ==
    /\ mf_result = MfPending
    /\ mf_field \in PatternFields
    /\ mf_result' = _match_field(mf_field,
                                [EmptyText EXCEPT !.caps[mf_field] = mf_rules],
                                padsYear)
    /\ UNCHANGED <<mf_field, mf_rules, padsYear>>
    /\ UNCHANGED pipeVars
    /\ UNCHANGED gtVars
    /\ UNCHANGED dbVars
    /\ UNCHANGED rvVars
    /\ UNCHANGED apiVars
    /\ UNCHANGED joVars
    /\ UNCHANGED dtVars
    /\ UNCHANGED psVars
    /\ UNCHANGED foVars
    /\ UNCHANGED txVars

NextMatch == MatchFieldCall

SpecMatch == InitMatch /\ [][NextMatch]_vars

---------------------------------------------------------------------------
(* C4 *)

Converts(f, tok) ==
    IF f \in DATE_FIELDS THEN ParsesDMY(Strip(tok))
    ELSE IF f \in DECIMAL_FIELDS THEN FloatOk(Strip(tok))
    ELSE TRUE

Typed(f, tok, pads) ==
    IF f \in DATE_FIELDS THEN _to_iso(Strip(tok), pads)
    ELSE IF f \in DECIMAL_FIELDS THEN NumVal(Strip(tok))
    ELSE TextVal(Strip(tok))

\* capture (r2, i2) precedes capture (r, i): earlier rule, or same rule and
\* earlier position
Precedes(r2, i2, r, i) == r2 < r \/ (r2 = r /\ i2 < i)

\* C4: _match_field returns, with score 1.0, the first capture that converts
\* to the field's type, captures ordered by rule and then by position; a
\* capture that fails conversion is skipped; (null, 0.0) if none converts.
C4_FirstTypedCaptureWins ==
    mf_result # MfPending =>
        \/ \E r \in DOMAIN mf_rules : \E i \in DOMAIN mf_rules[r] :
              /\ Converts(mf_field, mf_rules[r][i])
              /\ \A r2 \in DOMAIN mf_rules : \A i2 \in DOMAIN mf_rules[r2] :
                    Precedes(r2, i2, r, i) => ~Converts(mf_field, mf_rules[r2][i2])
              /\ mf_result = Matched(Typed(mf_field, mf_rules[r][i], padsYear), ScoreRegex)
        \/ /\ \A r \in DOMAIN mf_rules : \A i \in DOMAIN mf_rules[r] :
                    ~Converts(mf_field, mf_rules[r][i])
           /\ mf_result = Matched(Null, ScoreNone)

\* a malformed date precedes a well-formed one inside one rule and another
\* rule follows with a different date: the well-formed one of the first rule
\* is returned
C4_Witness ==
    /\ mf_result # MfPending
    /\ mf_field = "date_of_birth"
    /\ Len(mf_rules[4]) = 2
    /\ ~ParsesDMY(mf_rules[4][1])
    /\ ParsesDMY(mf_rules[4][2])
    /\ Len(mf_rules[5]) = 1
    /\ ParsesDMY(mf_rules[5][1])
    /\ mf_rules[5][1] # mf_rules[4][2]
    /\ mf_result = Matched(_to_iso(mf_rules[4][2], padsYear), ScoreRegex)

---------------------------------------------------------------------------
(* Claims about the result of parse_contract                               *)

Ins == "insurance_status"

Returned == result.returned

\* C1: in every result confidence is the minimum of field_scores over the
\* fields other than insurance_status: it is the score of one of them and
\* no such field scores lower.
C1_ConfidenceIsMinScore ==
    Returned =>
        /\ \E f \in DOMAIN result.field_scores \ {Ins} :
              result.confidence = result.field_scores[f]
        /\ \A f \in DOMAIN result.field_scores \ {Ins} :
              result.confidence <= result.field_scores[f]

\* a result mixing a rule match, a model answer and insurance_status
C1_Witness ==
    /\ Returned
    /\ result.confidence = ScoreLlm
    /\ result.field_scores["full_name"] = ScoreRegex
    /\ result.field_scores["job_title"] = ScoreLlm
    /\ llm_outcome.kind = "object"

\* C2: in every result each score is 1.0, 0.85 or 0.0; a field other than
\* insurance_status scores 1.0 only with the value _match_field finds for it
\* in the text; a field scoring 0.0 has value null.
C2_ScoreTiers ==
    Returned =>
        \A f \in DOMAIN result.field_scores :
            /\ result.field_scores[f] \in {ScoreRegex, ScoreLlm, ScoreNone}
            /\ (f # Ins /\ result.field_scores[f] = ScoreRegex) =>
                  /\ _match_field(f, text, padsYear).score = ScoreRegex
                  /\ result.fields[f] = _match_field(f, text, padsYear).value
            /\ result.field_scores[f] = ScoreNone => result.fields[f] = Null

\* a result with one score of each tier, the model having answered badly
\* typed values
C2_Witness ==
    /\ Returned
    /\ result.field_scores["full_name"] = ScoreRegex
    /\ result.field_scores["contract_expiry_date"] = ScoreDerived
    /\ result.field_scores["date_of_birth"] = ScoreNone
    /\ llm_outcome.kind = "object"
    /\ RawGet(llm_outcome.raw, "date_of_birth") # JNull

\* C3: insurance_status is (null, 1.0) in every result and is never among
\* the fields passed to _llm_extract_fields.
C3_InsuranceStatus ==
    /\ \A i \in DOMAIN llm_requested : llm_requested[i] # Ins
    /\ Returned =>
          /\ result.fields[Ins] = Null
          /\ result.field_scores[Ins] = ScoreInsurance

\* the model answered a value under the key insurance_status
C3_Witness ==
    /\ Returned
    /\ llm_outcome.kind = "object"
    /\ Ins \in DOMAIN llm_outcome.raw
    /\ llm_outcome.raw[Ins] # JNull
    /\ llm_requested # <<>>

\* C5: in every result each date field is null with score 0.0 or a calendar
\* date written YYYY-MM-DD.
C5_DatesIsoOrNull ==
    Returned =>
        \A f \in DATE_FIELDS :
            \/ result.fields[f] = Null /\ result.field_scores[f] = ScoreNone
            \/ IsIsoDate(result.fields[f])

DerivedTargets == {"contract_start_date", "contract_expiry_date"}

\* C6: the derived-date step changes a field only when the document type is
\* job_offer, only contract_start_date or contract_expiry_date, only when
\* that field scored 0.0 after matching, and scores it 0.85.
C6_DerivedOnlyFillsGaps ==
    [][ pc = "derive" =>
          \A f \in PatternFields :
             (fields'[f] # fields[f] \/ scores'[f] # scores[f]) =>
                /\ doc_type = "job_offer"
                /\ f \in DerivedTargets
                /\ scores[f] = ScoreNone
                /\ scores'[f] = ScoreDerived ]_vars

\* a job offer with signing date and duration whose start date a rule found:
\* after the step the start is the rule's, the expiry is derived
C6_Witness ==
    /\ pc = "llm"
    /\ doc_type = "job_offer"
    /\ SigningIso(text, padsYear) # Null
    /\ DurationYears(text) # NoYears
    /\ scores["contract_start_date"] = ScoreRegex
    /\ fields["contract_start_date"] = _to_iso(GoodStart, padsYear)
    /\ scores["contract_expiry_date"] = ScoreDerived

\* C7: merging the external fallback's answer leaves every field that had a
\* non-zero score before the call with the same value and score.
C7_FallbackOnlyFillsGaps ==
    [][ pc = "llm" =>
          \A f \in PatternFields :
             scores[f] # ScoreNone =>
                /\ f \in DOMAIN fields' /\ f \in DOMAIN scores'
                /\ fields'[f] = fields[f]
                /\ scores'[f] = scores[f] ]_vars

\* the model answered every key, resolved ones included; the rule's name and
\* the derived expiry are kept, the date of birth is the model's
C7_Witness ==
    /\ pc = "finish"
    /\ llm_outcome.kind = "object"
    /\ \A f \in PatternFields : RawGet(llm_outcome.raw, f) = GoodAnswer(f)
    /\ scores["full_name"] = ScoreRegex
    /\ fields["full_name"] = TextVal(Strip(SectionToken("full_name")))
    /\ scores["contract_expiry_date"] = ScoreDerived
    /\ fields["contract_expiry_date"] # _to_iso(GoodAnswer("contract_expiry_date").tok, padsYear)
    /\ scores["date_of_birth"] = ScoreLlm
    /\ fields["date_of_birth"] = _to_iso(GoodAnswer("date_of_birth").tok, padsYear)

FallbackFailed(out) ==
    out.kind \in {"no_library", "no_key", "call_failed", "not_object"}

\* C8: when the external service is disabled, unreachable or answers
\* something that is no JSON object, parse_contract does not raise and the
\* requested fields stay null with score 0.0.
C8_FallbackFailureIsSoft ==
    FallbackFailed(llm_outcome) =>
        /\ pc # "raised"
        /\ \A f \in ToSet(llm_requested) :
              fields[f] = Null /\ scores[f] = ScoreNone

\* conversion of a model answer as claim C9 words it
AnswerConverts(f, val) ==
    IF f \in DATE_FIELDS
    THEN LET tok == Str(val) IN
         tok.form = "dmy" /\ ~tok.pad /\ ValidDate(tok.d, tok.m, tok.y)
    ELSE IF f \in DECIMAL_FIELDS
    THEN val.j = "num" \/ (val.j = "str" /\ val.tok.form = "num")
    ELSE TRUE

AnswerValue(f, val, pads) ==
    IF f \in DATE_FIELDS
    THEN LET tok == Str(val) IN IsoString(tok.d, tok.m, tok.y, pads)
    ELSE IF f \in DECIMAL_FIELDS
    THEN [k |-> "num", n |-> Str(val).n]
    ELSE [k |-> "text", tok |-> [Str(val) EXCEPT !.pad = FALSE]]

AllUnresolved(fs, sc) ==
    \A f \in PatternFields : fs[f] = Null /\ sc[f] = ScoreNone

\* C10 (as stated, the part about the result): after _get_text returned the
\* empty text, the result parse_contract returns has every field other than
\* insurance_status null with score 0.0 and confidence 0.0.
C10_EmptyTextAllNull ==
    (Returned /\ text = EmptyText) =>
        /\ AllUnresolved(result.fields, result.field_scores)
        /\ result.confidence = ScoreNone

\* the fallback supplies no value: disabled, the call fails, or the model
\* answers null for every field
SuppliesNoValue(out) ==
    \/ out.kind \in {"no_library", "no_key", "call_failed"}
    \/ /\ out.kind = "object"
       /\ \A f \in PatternFields : RawGet(out.raw, f) = JNull

\* C10 (amended): on the empty text all ten fields are passed to the
\* external fallback in one call; when the fallback supplies no value,
\* parse_contract does not raise and returns every field other than
\* insurance_status null with score 0.0 and confidence 0.0.
C10_EmptyTextNoAnswerAllNull ==
    (pc \in {"finish", "done", "raised"} /\ text = EmptyText) =>
        /\ llm_calls = 1
        /\ llm_requested = PatternFieldSeq
        /\ SuppliesNoValue(llm_outcome) =>
              /\ pc # "raised"
              /\ AllUnresolved(fields, scores)
              /\ pc = "done" =>
                    /\ AllUnresolved(result.fields, result.field_scores)
                    /\ result.confidence = ScoreNone

\* empty text, the model reached and answering null for every field
C10_Witness ==
    /\ Returned
    /\ text = EmptyText
    /\ llm_outcome.kind = "object"
    /\ llm_outcome.raw = [f \in AllFields |-> JNull]
    /\ result.confidence = ScoreNone

---------------------------------------------------------------------------
(* _get_text                                                               *)
(*                                                                         *)
(* A string is represented by its length after strip (len), its length     *)
(* before strip (raw) and the engine that produced it (by).  The text of   *)
(* a document, "\n".join(result_pages), is represented by the sequence of  *)
(* the joined page strings.                                                *)

_MIN_TEXT_CHARS == 100

_TESSDATA_CANDIDATES == <<"default", "program_files", "program_files_x86">>

PageText(by, n) == [by |-> by, len |-> n, raw |-> n]

\* a string of white space only
BlankText(by) == [by |-> by, len |-> 0, raw |-> 1]

\* the literal ""
EmptyString == [by |-> "literal", len |-> 0, raw |-> 0]

\* image_to_string raises
OcrRaises == [by |-> "raises", len |-> 0, raw |-> 0]

\* return page.get_text(textpage=tp) of the first candidate that does not
\* raise, "" when every candidate raises
RECURSIVE TryCandidates(_, _, _)
TryCandidates(inp, page_index, k) ==
    IF k > Len(_TESSDATA_CANDIDATES) THEN EmptyString
    ELSE IF _TESSDATA_CANDIDATES[k] \in inp.tessdata
         THEN inp.pages[page_index].ocr
         ELSE TryCandidates(inp, page_index, k + 1)

_ocr_page_fitz(inp, page_index) == TryCandidates(inp, page_index, 1)

\* plumber_pages[i] if i < len(plumber_pages) else ""
PlumbText(inp, i) ==
    IF i <= inp.plumber_len THEN inp.pages[i].plumber ELSE EmptyString

\* the legacy path inside the page loop of the PyMuPDF branch:
\* convert_from_path, then image_to_string of the page's image
LegacyPage(inp, i) ==
    IF ~inp.convert_ok THEN [text |-> EmptyString, ocr |-> FALSE]
    ELSE IF i <= inp.image_count
         THEN IF inp.pages[i].legacy = OcrRaises
              THEN [text |-> EmptyString, ocr |-> FALSE]
              ELSE [text |-> inp.pages[i].legacy, ocr |-> TRUE]
         ELSE [text |-> EmptyString, ocr |-> FALSE]

\* variant: a page is flagged as soon as it gets to the OCR stage
FitzPageFlagsStage(inp, i) ==
    IF inp.pages[i].fitz.len >= _MIN_TEXT_CHARS
    THEN [text |-> inp.pages[i].fitz, ocr |-> FALSE]
    ELSE IF PlumbText(inp, i).len >= _MIN_TEXT_CHARS
    THEN [text |-> PlumbText(inp, i), ocr |-> FALSE]
    ELSE IF _ocr_page_fitz(inp, i).len > 0
    THEN [text |-> _ocr_page_fitz(inp, i), ocr |-> TRUE]
    ELSE IF inp.LEGACY_OCR_AVAILABLE
    THEN [text |-> LegacyPage(inp, i).text, ocr |-> TRUE]
    ELSE [text |-> EmptyString, ocr |-> TRUE]

\* variant: a page no engine can read keeps its short primary text
FitzPageKeepsShortText(inp, i) ==
    IF inp.pages[i].fitz.len >= _MIN_TEXT_CHARS
    THEN [text |-> inp.pages[i].fitz, ocr |-> FALSE]
    ELSE IF PlumbText(inp, i).len >= _MIN_TEXT_CHARS
    THEN [text |-> PlumbText(inp, i), ocr |-> FALSE]
    ELSE IF _ocr_page_fitz(inp, i).len > 0
    THEN [text |-> _ocr_page_fitz(inp, i), ocr |-> TRUE]
    ELSE IF inp.LEGACY_OCR_AVAILABLE /\ LegacyPage(inp, i).ocr
    THEN LegacyPage(inp, i)
    ELSE [text |-> inp.pages[i].fitz, ocr |-> FALSE]

\* variant: the in-process OCR is asked before pdfplumber's text is looked at
FitzPageOcrFirst(inp, i) ==
    IF inp.pages[i].fitz.len >= _MIN_TEXT_CHARS
    THEN [text |-> inp.pages[i].fitz, ocr |-> FALSE]
    ELSE IF _ocr_page_fitz(inp, i).len > 0
    THEN [text |-> _ocr_page_fitz(inp, i), ocr |-> TRUE]
    ELSE IF PlumbText(inp, i).len >= _MIN_TEXT_CHARS
    THEN [text |-> PlumbText(inp, i), ocr |-> FALSE]
    ELSE IF inp.LEGACY_OCR_AVAILABLE
    THEN LegacyPage(inp, i)
    ELSE [text |-> EmptyString, ocr |-> FALSE]

\* one iteration of "for i, fitz_text in enumerate(fitz_pages)": the string
\* appended to result_pages and whether the iteration sets ocr_used
FitzPage(inp, i) ==
    IF inp.pages[i].fitz.len >= _MIN_TEXT_CHARS
    THEN [text |-> inp.pages[i].fitz, ocr |-> FALSE]
    ELSE IF PlumbText(inp, i).len >= _MIN_TEXT_CHARS
    THEN [text |-> PlumbText(inp, i), ocr |-> FALSE]
    ELSE IF _ocr_page_fitz(inp, i).len > 0
    THEN [text |-> _ocr_page_fitz(inp, i), ocr |-> TRUE]
    ELSE IF inp.LEGACY_OCR_AVAILABLE
    THEN LegacyPage(inp, i)
    ELSE [text |-> EmptyString, ocr |-> FALSE]

GtReturn(pages, used) == [raised |-> FALSE, pages |-> pages, ocr_used |-> used]

GtRaised == [raised |-> TRUE]

\* the PyMuPDF branch
FitzBranch(inp) ==
    GtReturn([i \in 1..Len(inp.pages) |-> FitzPage(inp, i).text],
             \E i \in 1..Len(inp.pages) : FitzPage(inp, i).ocr)


\* the branch taken when PyMuPDF is not installed: a page of pdfplumber is
\* replaced by image_to_string of its image when it is short and has one
LegacyOcrs(inp, i) ==
    /\ inp.pages[i].plumber.len < _MIN_TEXT_CHARS
    /\ i <= inp.image_count

PlumberBranch(inp) ==
    LET n == inp.plumber_len
        full_text == [i \in 1..n |-> inp.pages[i].plumber]
        raising == {i \in 1..n : LegacyOcrs(inp, i)
                                    /\ inp.pages[i].legacy = OcrRaises}
        merged == [i \in 1..n |-> IF LegacyOcrs(inp, i)
                                  THEN inp.pages[i].legacy
                                  ELSE inp.pages[i].plumber]
    IN  IF ~inp.LEGACY_OCR_AVAILABLE \/ ~inp.convert_ok
        THEN GtReturn(full_text, FALSE)
        ELSE IF raising # {}
        THEN \* except Exception: pass, then return full_text, ocr_used
             GtReturn(full_text,
                      \E i \in 1..n : /\ LegacyOcrs(inp, i)
                                      /\ \A j \in raising : i < j)
        ELSE GtReturn(merged, \E i \in 1..n : LegacyOcrs(inp, i))

_get_text(inp) ==
    IF inp.suffix = "image"
    THEN IF inp.LEGACY_OCR_AVAILABLE
         THEN IF inp.image_ocr = OcrRaises
              THEN GtRaised
              ELSE GtReturn(<<inp.image_ocr>>, TRUE)
         ELSE GtReturn(<<EmptyString>>, FALSE)
    ELSE IF inp.PYMUPDF_AVAILABLE
         THEN FitzBranch(inp)
         ELSE PlumberBranch(inp)

\* the OCR functions iteration i of the loop of the PyMuPDF branch calls,
\* in the order of the calls
FitzOcrCalls(inp, i) ==
    IF inp.pages[i].fitz.len >= _MIN_TEXT_CHARS THEN << >>
    ELSE IF PlumbText(inp, i).len >= _MIN_TEXT_CHARS THEN << >>
    ELSE <<"_ocr_page_fitz">> \o
         (IF _ocr_page_fitz(inp, i).len > 0 THEN << >>
          ELSE IF ~inp.LEGACY_OCR_AVAILABLE THEN << >>
          ELSE <<"convert_from_path">> \o
               (IF inp.convert_ok /\ i <= inp.image_count
                THEN <<"image_to_string">> ELSE << >>))

\* the OCR functions iteration i of the loop of the pdfplumber branch
\* calls; the loop ends at the first page image_to_string raises on
PlumberOcrCalls(inp, i) ==
    IF /\ inp.LEGACY_OCR_AVAILABLE
       /\ inp.convert_ok
       /\ LegacyOcrs(inp, i)
       /\ \A j \in 1..(i - 1) :
             LegacyOcrs(inp, j) => inp.pages[j].legacy # OcrRaises
    THEN <<"image_to_string">> ELSE << >>

\* the OCR calls of a _get_text call: those made once for the document
\* before a loop, and those of each iteration
OcrCalls(inp) ==
    IF inp.suffix = "image"
    THEN [document |-> IF inp.LEGACY_OCR_AVAILABLE THEN <<"_ocr_image">>
                       ELSE << >>,
          pages |-> << >>]
    ELSE IF inp.PYMUPDF_AVAILABLE
    THEN [document |-> << >>,
          pages |-> [i \in 1..Len(inp.pages) |-> FitzOcrCalls(inp, i)]]
    ELSE [document |-> IF inp.LEGACY_OCR_AVAILABLE
                       THEN <<"convert_from_path">> ELSE << >>,
          pages |-> [i \in 1..inp.plumber_len |-> PlumberOcrCalls(inp, i)]]

---------------------------------------------------------------------------
(* A single call of _get_text on a bounded file and installation           *)

MaxPages == 2

\* a page with a text layer both extractors read
NativePage ==
    [fitz    |-> PageText("fitz", _MIN_TEXT_CHARS),
     plumber |-> PageText("pdfplumber", _MIN_TEXT_CHARS),
     ocr     |-> PageText("fitz_ocr", _MIN_TEXT_CHARS),
     legacy  |-> PageText("pytesseract", _MIN_TEXT_CHARS)]

\* a page only pdfplumber reads in full
PlumberPage ==
    [NativePage EXCEPT !.fitz = PageText("fitz", _MIN_TEXT_CHARS - 1)]

\* a scanned page: no text layer, both OCR engines read it
ScannedPage ==
    [fitz    |-> BlankText("fitz"),
     plumber |-> EmptyString,
     ocr     |-> PageText("fitz_ocr", _MIN_TEXT_CHARS),
     legacy  |-> PageText("pytesseract", _MIN_TEXT_CHARS)]

\* a page with a few characters of text on which the in-process OCR finds
\* nothing
SparsePage ==
    [fitz    |-> PageText("fitz", _MIN_TEXT_CHARS - 1),
     plumber |-> PageText("pdfplumber", _MIN_TEXT_CHARS - 1),
     ocr     |-> BlankText("fitz_ocr"),
     legacy  |-> BlankText("pytesseract")]

\* a page with a few characters of text on which image_to_string raises
BrokenPage == [SparsePage EXCEPT !.legacy = OcrRaises]

PageKinds == {NativePage, PlumberPage, ScannedPage, SparsePage, BrokenPage}

TessdataChoices == {{}, {"default"}, {"program_files_x86"}}

PdfPages == UNION { [1..n -> PageKinds] : n \in 1..MaxPages }

PdfInputs ==
    { [suffix |-> "pdf", pages |-> pg,
       PYMUPDF_AVAILABLE |-> py, LEGACY_OCR_AVAILABLE |-> lg,
       tessdata |-> td, convert_ok |-> cv,
       image_count |-> Len(pg) - im, plumber_len |-> Len(pg) - pl,
       image_ocr |-> EmptyString] :
        pg \in PdfPages, py \in BOOLEAN, lg \in BOOLEAN,
        td \in TessdataChoices, cv \in BOOLEAN,
        im \in {0, 1}, pl \in {0, 1} }

ImageInputs ==
    { [suffix |-> "image", pages |-> << >>,
       PYMUPDF_AVAILABLE |-> py, LEGACY_OCR_AVAILABLE |-> lg,
       tessdata |-> {}, convert_ok |-> TRUE,
       image_count |-> 0, plumber_len |-> 0,
       image_ocr |-> io] :
        py \in BOOLEAN, lg \in BOOLEAN,
        io \in {PageText("pytesseract", _MIN_TEXT_CHARS),
                BlankText("pytesseract"), OcrRaises} }

GtInputs == PdfInputs \cup ImageInputs

InitText ==
    /\ PipeIdle
    /\ padsYear = TRUE
    /\ MfIdle
    /\ gt_input \in GtInputs
    /\ gt_result = GtPending
    /\ gt_tried = << >>
    /\ DbIdle
    /\ RvIdle
    /\ ApiIdle
    /\ JoIdle
    /\ DtIdle
    /\ PsIdle
    /\ FoIdle
    /\ TxIdle

\* text, ocr_used = _get_text(file_path)
GetTextCall ==
    /\ gt_result = GtPending
    /\ gt_input \in GtInputs
    /\ gt_result' = _get_text(gt_input)
    /\ gt_tried' = OcrCalls(gt_input)
    /\ UNCHANGED gt_input
    /\ UNCHANGED <<pipeVars, padsYear, mfVars>>
    /\ UNCHANGED dbVars
    /\ UNCHANGED rvVars
    /\ UNCHANGED apiVars
    /\ UNCHANGED joVars
    /\ UNCHANGED dtVars
    /\ UNCHANGED psVars
    /\ UNCHANGED foVars
    /\ UNCHANGED txVars

NextText == GetTextCall

SpecText == InitText /\ [][NextText]_vars


---------------------------------------------------------------------------
(* Claims about _get_text                                                  *)

GtReturned == gt_result # GtPending /\ ~gt_result.raised

\* the pages for which every structured-text extractor of the installation
\* returned fewer than _MIN_TEXT_CHARS characters
OcrStagePages(inp) ==
    IF inp.PYMUPDF_AVAILABLE
    THEN {i \in 1..Len(inp.pages) :
            /\ inp.pages[i].fitz.len < _MIN_TEXT_CHARS
            /\ PlumbText(inp, i).len < _MIN_TEXT_CHARS}
    ELSE {i \in 1..inp.plumber_len :
            inp.pages[i].plumber.len < _MIN_TEXT_CHARS}

\* every tessdata candidate raises
InProcessOcrFails(inp) ==
    \A k \in DOMAIN _TESSDATA_CANDIDATES : _TESSDATA_CANDIDATES[k] \notin inp.tessdata

\* the legacy engine reads the image of page i
LegacyReads(inp, i) ==
    /\ inp.LEGACY_OCR_AVAILABLE
    /\ inp.convert_ok
    /\ i <= inp.image_count
    /\ inp.pages[i].legacy # OcrRaises

\* an OCR engine produced the string of page i
EngineYields(inp, i) ==
    IF inp.PYMUPDF_AVAILABLE
    THEN \/ ~InProcessOcrFails(inp) /\ inp.pages[i].ocr.len > 0
         \/ LegacyReads(inp, i)
    ELSE /\ LegacyReads(inp, i)
         /\ \A j \in 1..(i - 1) :
                (j \in OcrStagePages(inp) /\ j <= inp.image_count)
                    => inp.pages[j].legacy # OcrRaises

NoOcrEngine(inp, i) ==
    /\ InProcessOcrFails(inp)
    /\ \/ ~inp.LEGACY_OCR_AVAILABLE
       \/ ~inp.convert_ok
       \/ inp.pages[i].legacy = OcrRaises

\* C12: a PDF page for which both extractors return fewer than
\* _MIN_TEXT_CHARS characters while no OCR engine is available contributes
\* the empty string and _get_text does not raise; an image file with no
\* OCR capability yields ("", false).
C12_NoEngineGivesEmptyText ==
    gt_result # GtPending =>
        /\ (gt_input.suffix = "pdf" /\ gt_input.PYMUPDF_AVAILABLE) =>
              \A i \in OcrStagePages(gt_input) :
                  NoOcrEngine(gt_input, i) =>
                      /\ ~gt_result.raised
                      /\ gt_result.pages[i] = EmptyString
        /\ (gt_input.suffix = "image" /\ ~gt_input.LEGACY_OCR_AVAILABLE) =>
              gt_result = GtReturn(<<EmptyString>>, FALSE)

\* a page with a few characters of text, image_to_string raising on it
C12_Witness ==
    /\ GtReturned
    /\ gt_input.suffix = "pdf"
    /\ gt_input.PYMUPDF_AVAILABLE
    /\ gt_input.LEGACY_OCR_AVAILABLE
    /\ gt_input.convert_ok
    /\ \E i \in OcrStagePages(gt_input) :
          /\ NoOcrEngine(gt_input, i)
          /\ i <= gt_input.image_count
          /\ gt_input.pages[i].fitz.len > 0
          /\ gt_result.pages[i] = EmptyString

\* the number of pages the first extractor of the installation finds
PageCount(inp) ==
    IF inp.PYMUPDF_AVAILABLE THEN Len(inp.pages) ELSE inp.plumber_len

\* the in-process OCR gave no text for page i: PyMuPDF is not installed,
\* no tessdata candidate works, or the text it returns is blank
InProcessOcrGivesNothing(inp, i) ==
    \/ ~inp.PYMUPDF_AVAILABLE
    \/ InProcessOcrFails(inp)
    \/ inp.pages[i].ocr.len = 0

\* a function of the legacy path was called for page i
LegacyTried(i) ==
    \E k \in DOMAIN gt_tried.pages[i] :
        gt_tried.pages[i][k] \in {"convert_from_path", "image_to_string"}

\* C25: for each page of a PDF, the text of the primary extractor is used
\* if it has at least _MIN_TEXT_CHARS characters; the text of the
\* secondary extractor is used only if the primary's is shorter and its
\* own is long enough; the in-process OCR is attempted only if both are
\* too short; the legacy path is attempted only if the in-process OCR
\* returned nothing and the legacy capability is available; each page
\* contributes one segment, in page order.
C25_EscalatesInOrder ==
    (GtReturned /\ gt_input.suffix = "pdf") =>
        /\ Len(gt_result.pages) = PageCount(gt_input)
        /\ \A i \in 1..PageCount(gt_input) :
              LET pg == gt_input.pages[i]
                  seg == gt_result.pages[i]
              IN  /\ seg \in {pg.fitz, pg.plumber, pg.ocr, pg.legacy, EmptyString}
                  /\ (gt_input.PYMUPDF_AVAILABLE
                        /\ pg.fitz.len >= _MIN_TEXT_CHARS) => seg = pg.fitz
                  /\ seg.by = "pdfplumber" =>
                        /\ seg.len >= _MIN_TEXT_CHARS
                        /\ gt_input.PYMUPDF_AVAILABLE =>
                              pg.fitz.len < _MIN_TEXT_CHARS
                  /\ gt_tried.pages[i] # << >> =>
                        i \in OcrStagePages(gt_input)
                  /\ LegacyTried(i) =>
                        /\ InProcessOcrGivesNothing(gt_input, i)
                        /\ gt_input.LEGACY_OCR_AVAILABLE

\* the first success of the escalation for page i when PyMuPDF is
\* installed
FirstSuccess(inp, i) ==
    LET pg == inp.pages[i] IN
    CASE pg.fitz.len >= _MIN_TEXT_CHARS -> pg.fitz
      [] /\ pg.fitz.len < _MIN_TEXT_CHARS
         /\ PlumbText(inp, i).len >= _MIN_TEXT_CHARS -> PlumbText(inp, i)
      [] /\ i \in OcrStagePages(inp)
         /\ ~InProcessOcrGivesNothing(inp, i) -> pg.ocr
      [] /\ i \in OcrStagePages(inp)
         /\ InProcessOcrGivesNothing(inp, i)
         /\ LegacyReads(inp, i) -> pg.legacy
      [] OTHER -> EmptyString

\* image_to_string raises on some page the pdfplumber branch runs it on
LegacyLoopRaises(inp) ==
    \E j \in 1..inp.plumber_len :
        /\ inp.pages[j].plumber.len < _MIN_TEXT_CHARS
        /\ j <= inp.image_count
        /\ inp.pages[j].legacy = OcrRaises

\* C25 (amended): with PyMuPDF installed the escalation is the one stated,
\* a page on which nothing succeeds contributing "".  Without PyMuPDF,
\* pdfplumber is the only extractor and there is no in-process OCR: a
\* page contributes pdfplumber's text whatever its length, unless the
\* legacy capability is available, the conversion succeeds, the text is
\* shorter than _MIN_TEXT_CHARS and the page has an image, when it
\* contributes image_to_string of the image; if image_to_string raises on
\* any page, every page contributes pdfplumber's text.  Each page
\* contributes one segment, in page order.
C25_EscalatesInOrderPerInstallation ==
    (GtReturned /\ gt_input.suffix = "pdf") =>
        /\ Len(gt_result.pages) = PageCount(gt_input)
        /\ DOMAIN gt_tried.pages = 1..PageCount(gt_input)
        /\ \A i \in 1..PageCount(gt_input) :
              LET pg == gt_input.pages[i]
                  seg == gt_result.pages[i]
              IN  IF gt_input.PYMUPDF_AVAILABLE
                  THEN /\ seg = FirstSuccess(gt_input, i)
                       /\ gt_tried.pages[i] # << >> =>
                             i \in OcrStagePages(gt_input)
                       /\ LegacyTried(i) =>
                             /\ InProcessOcrGivesNothing(gt_input, i)
                             /\ gt_input.LEGACY_OCR_AVAILABLE
                  ELSE /\ seg = IF /\ gt_input.LEGACY_OCR_AVAILABLE
                                   /\ gt_input.convert_ok
                                   /\ ~LegacyLoopRaises(gt_input)
                                   /\ pg.plumber.len < _MIN_TEXT_CHARS
                                   /\ i <= gt_input.image_count
                                THEN pg.legacy
                                ELSE pg.plumber
                       /\ gt_tried.pages[i] # << >> =>
                             /\ pg.plumber.len < _MIN_TEXT_CHARS
                             /\ gt_input.LEGACY_OCR_AVAILABLE

\* a two-page PDF read with PyMuPDF: pdfplumber's text is used for one
\* page without any OCR call, the other page goes through the in-process
\* OCR, which finds nothing, to the legacy path, which reads it
C25_Witness ==
    /\ GtReturned
    /\ gt_input.suffix = "pdf"
    /\ gt_input.PYMUPDF_AVAILABLE
    /\ Len(gt_result.pages) = MaxPages
    /\ \E i, j \in 1..MaxPages :
          /\ i < j
          /\ gt_result.pages[i].by = "pdfplumber"
          /\ gt_tried.pages[i] = << >>
          /\ gt_tried.pages[j] =
                <<"_ocr_page_fitz", "convert_from_path", "image_to_string">>
          /\ gt_result.pages[j].by = "pytesseract"


---------------------------------------------------------------------------
(* Shape of the result of parse_contract                                   *)

DocTypes == {"employment_contract", "job_offer", "unknown"}

\* C13: every result parse_contract returns contains confidence, ocr_used,
\* doc_type, and a fields map and a field_scores map whose key sets are
\* both exactly the eleven declared fields, whatever keys the answer of
\* the external model had.
C13_ResultHasElevenFields ==
    Returned =>
        /\ DOMAIN result =
              {"returned", "fields", "field_scores", "confidence",
               "ocr_used", "doc_type"}
        /\ DOMAIN result.fields = AllFields
        /\ DOMAIN result.field_scores = AllFields
        /\ Cardinality(AllFields) = Len(PatternFieldSeq) + 1
        /\ result.confidence \in {ScoreNone, ScoreDerived, ScoreLlm, ScoreRegex}
        /\ result.ocr_used \in BOOLEAN
        /\ result.doc_type \in DocTypes

\* a result after an answer that had a key outside the declared fields
C13_Witness ==
    /\ Returned
    /\ llm_outcome.kind = "object"
    /\ \E k \in DOMAIN llm_outcome.raw : k \notin AllFields
    /\ "job_title" \in ToSet(llm_requested)
    /\ result.fields["job_title"] # Null


---------------------------------------------------------------------------
(* db.py: upsert_employee on table employees                               *)
(*                                                                         *)
(* A row keeps the columns the statements of upsert_employee and           *)
(* fetch_exceptions read or decide on; the other columns are written like  *)
(* full_name.  Table employees is created either by _DDL (full_name NOT    *)
(* NULL) or by the migration 001_hr_schema (full_name nullable).           *)

DbText(s) == TextVal(RawText(s))

\* f"EID-10{seq:02d}": the digits after "EID-10"
_next_eid(seq) ==
    [seq |-> seq, width |-> IF seq < 100 THEN 2 ELSE IF seq < 1000 THEN 3 ELSE 4]

\* WHERE passport_number = %s OR mohre_transaction_no = %s: a comparison
\* with NULL is never true
MatchingRows(rows, flds) ==
    { i \in DOMAIN rows :
        \/ /\ flds.passport_number # Null
           /\ rows[i].passport_number = flds.passport_number
        \/ /\ flds.mohre_transaction_no # Null
           /\ rows[i].mohre_transaction_no = flds.mohre_transaction_no }

\* the violation the statement raises, if any
ViolatesNotNull(required, flds) == required /\ flds.full_name = Null

\* UPDATE employees SET ... WHERE employee_id=%s
UpdatedRow(row, doc) ==
    [row EXCEPT !.full_name = doc.fields.full_name,
                !.source_file = doc.source_file,
                !.confidence_score = doc.confidence,
                !.field_scores = doc.field_scores,
                !.source_doc_type = doc.doc_type]

\* INSERT INTO employees (...) VALUES (...)
InsertedRow(employee_id, doc) ==
    [employee_id          |-> employee_id,
     full_name            |-> doc.fields.full_name,
     passport_number      |-> doc.fields.passport_number,
     mohre_transaction_no |-> doc.fields.mohre_transaction_no,
     source_file          |-> doc.source_file,
     confidence_score     |-> doc.confidence,
     field_scores         |-> doc.field_scores,
     source_doc_type      |-> doc.doc_type]

\* what a call does to the table and the sequence, and what it returns;
\* several outcomes when the SELECT matches several rows: fetchone() takes
\* any of them.  A violation rolls the transaction back and is raised, the
\* value drawn from the sequence stays drawn.
UpsertOutcome(rows, seq, raised, employee_id) ==
    [employees |-> rows, eid_seq |-> seq, raised |-> raised,
     employee_id |-> employee_id]

upsert_employee(rows, seq, required, doc) ==
    LET existing == MatchingRows(rows, doc.fields) IN
    IF existing # {}
    THEN { IF ViolatesNotNull(required, doc.fields)
           THEN UpsertOutcome(rows, seq, TRUE, _next_eid(0))
           ELSE UpsertOutcome([rows EXCEPT ![i] = UpdatedRow(@, doc)], seq,
                              FALSE, rows[i].employee_id) :
           i \in existing }
    ELSE { IF ViolatesNotNull(required, doc.fields)
           THEN UpsertOutcome(rows, seq + 1, TRUE, _next_eid(0))
           ELSE UpsertOutcome(Append(rows, InsertedRow(_next_eid(seq + 1), doc)),
                              seq + 1, FALSE, _next_eid(seq + 1)) }

---------------------------------------------------------------------------
(* Sequences of upsert_employee calls on bounded extraction results        *)

MaxCalls == 3

PassportNumbers == {Null, DbText("P1"), DbText("P2")}

TransactionNumbers == {Null, DbText("M1"), DbText("M2")}

\* full_name and source file of an upload
Uploads ==
    { [full_name |-> DbText("FRANK"), source_file |-> "a.pdf"],
      [full_name |-> DbText("FRANK"), source_file |-> "b.pdf"],
      [full_name |-> Null,            source_file |-> "a.pdf"] }

\* the scores parse_contract gives to values it found by rule or not at all
DocScores(flds) ==
    WithInsurance([f \in DOMAIN flds |->
                      IF flds[f] = Null THEN ScoreNone ELSE ScoreRegex],
                  ScoreInsurance)

\* the arguments of upsert_employee for one extraction result
Document(pp, mo, up) ==
    LET flds == [full_name            |-> up.full_name,
                 passport_number      |-> pp,
                 mohre_transaction_no |-> mo]
    IN  [fields       |-> flds,
         source_file  |-> up.source_file,
         confidence   |-> Confidence(DocScores(flds)),
         field_scores |-> DocScores(flds),
         doc_type     |-> "employment_contract"]

Documents ==
    { Document(pp, mo, up) :
        pp \in PassportNumbers, mo \in TransactionNumbers, up \in Uploads }

InitDb ==
    /\ PipeIdle
    /\ padsYear = TRUE
    /\ MfIdle
    /\ GtIdle
    /\ employees = << >>
    /\ eid_seq = 0
    /\ full_name_required \in BOOLEAN
    /\ calls = << >>
    /\ RvIdle
    /\ ApiIdle
    /\ JoIdle
    /\ DtIdle
    /\ PsIdle
    /\ FoIdle
    /\ TxIdle

\* employee_id = upsert_employee(fields, source_file, confidence,
\*                               field_scores, doc_type)
\* each call is recorded with its arguments, whether it raised, the
\* employee_id it returned and the number of rows it left
UpsertEmployee ==
    /\ Len(calls) < MaxCalls
    /\ \E doc \in Documents :
         \E out \in upsert_employee(employees, eid_seq, full_name_required, doc) :
            /\ employees' = out.employees
            /\ eid_seq' = out.eid_seq
            /\ calls' = Append(calls,
                               [doc         |-> doc,
                                raised      |-> out.raised,
                                employee_id |-> out.employee_id,
                                rows        |-> Len(out.employees)])
    /\ UNCHANGED full_name_required
    /\ UNCHANGED <<pipeVars, padsYear, mfVars, gtVars, rvVars>>
    /\ UNCHANGED apiVars
    /\ UNCHANGED joVars
    /\ UNCHANGED dtVars
    /\ UNCHANGED psVars
    /\ UNCHANGED foVars
    /\ UNCHANGED txVars

NextDb == UpsertEmployee

SpecDb == InitDb /\ [][NextDb]_vars


---------------------------------------------------------------------------
(* Claims about upsert_employee                                            *)

\* two argument dicts with the same non-null passport_number or the same
\* non-null mohre_transaction_no
SharesKey(a, b) ==
    \/ a.passport_number # Null /\ a.passport_number = b.passport_number
    \/ a.mohre_transaction_no # Null
          /\ a.mohre_transaction_no = b.mohre_transaction_no

\* call j returned an employee_id no earlier call returned
NewEmployee(j) ==
    /\ ~calls[j].raised
    /\ \A i \in 1..(j - 1) :
          ~calls[i].raised => calls[i].employee_id # calls[j].employee_id

\* C14: two calls that share a non-null passport_number or a non-null
\* mohre_transaction_no return the same employee_id, and a new employee_id
\* is assigned only when no earlier call had one of the keys of the call.
C14_SharedKeySameEmployee ==
    \A i, j \in DOMAIN calls :
        (i < j /\ ~calls[i].raised /\ ~calls[j].raised
               /\ SharesKey(calls[i].doc.fields, calls[j].doc.fields)) =>
            /\ calls[j].employee_id = calls[i].employee_id
            /\ ~NewEmployee(j)

\* C15: calling upsert_employee twice in a row with the same arguments
\* returns the same employee_id both times and leaves the number of rows
\* as it was after the first call, null keys included.
C15_ReingestIsIdempotent ==
    \A i \in DOMAIN calls :
        (i > 1 /\ calls[i].doc = calls[i - 1].doc
               /\ ~calls[i - 1].raised /\ ~calls[i].raised) =>
            /\ calls[i].employee_id = calls[i - 1].employee_id
            /\ calls[i].rows = calls[i - 1].rows

\* C16: every call stores a row and returns its employee_id, whatever the
\* confidence and whichever fields are null, full_name included.
C16_AlwaysStored ==
    \A i \in DOMAIN calls :
        /\ ~calls[i].raised
        /\ \E r \in DOMAIN employees :
              employees[r].employee_id = calls[i].employee_id


---------------------------------------------------------------------------
(* routers/ingest.py: _build_needs_review; db.py: fetch_exceptions         *)
(*                                                                         *)
(* Scores are in hundredths, as the Score definitions above: 0.95 is 95.   *)

ReviewThreshold == 95

\* the order in which scores.items() yields the keys of a score dict
ItemOrder == PatternFieldSeq \o <<"insurance_status">>

\* _REVIEW_ACTIONS.get(score, "spot_check")
_REVIEW_ACTIONS(score) ==
    IF score = ScoreNone THEN "enter_manually" ELSE "spot_check"

ReviewItems(sc, keys) ==
    [i \in 1..Len(keys) |->
        [field  |-> keys[i],
         score  |-> sc[keys[i]],
         action |-> _REVIEW_ACTIONS(sc[keys[i]])]]

\* variant: a score of exactly 0.95 is flagged too
NeedsReviewInclusive(sc) ==
    ReviewItems(sc, SelectSeq(ItemOrder,
        LAMBDA f : /\ f \in DOMAIN sc
                   /\ f # "insurance_status"
                   /\ sc[f] <= ReviewThreshold))

_build_needs_review(sc) ==
    ReviewItems(sc, SelectSeq(ItemOrder,
        LAMBDA f : /\ f \in DOMAIN sc
                   /\ f # "insurance_status"
                   /\ sc[f] < ReviewThreshold))

RECURSIVE Pow10(_)
Pow10(n) == IF n = 0 THEN 1 ELSE 10 * Pow10(n - 1)

\* the digits of an employee_id after "EID-", as a number
EidNumber(e) == 10 * Pow10(e.width) + e.seq

\* order of two employee_id as TEXT
EidLess(a, b) ==
    IF a.width = b.width THEN a.seq < b.seq
    ELSE IF a.width < b.width
         THEN EidNumber(a) <= EidNumber(b) \div Pow10(b.width - a.width)
         ELSE EidNumber(a) \div Pow10(a.width - b.width) < EidNumber(b)

\* SELECT * FROM employees ORDER BY employee_id
fetch_all_employees(rows) ==
    SortSeq(rows, LAMBDA r1, r2 : EidLess(r1.employee_id, r2.employee_id))

\* row.get("field_scores") or {}
ScoresOrEmpty(row) ==
    IF row.field_scores = Null THEN [f \in {} |-> ScoreNone]
    ELSE row.field_scores

fetch_exceptions(rows) ==
    SelectSeq(fetch_all_employees(rows),
        LAMBDA row : \E k \in DOMAIN ScoresOrEmpty(row) :
                        /\ k # "insurance_status"
                        /\ ScoresOrEmpty(row)[k] < ReviewThreshold)

---------------------------------------------------------------------------
(* One call of each on bounded score dicts and tables                      *)

MaxRows == 2

ReviewFields == {"full_name", "job_title", "insurance_status"}

ScoreValues == {ScoreNone, ScoreLlm, ReviewThreshold, ScoreRegex}

\* score dicts over any of the fields
ScoreMaps == UNION { [S -> ScoreValues] : S \in SUBSET ReviewFields }

\* field_scores of stored rows: NULL (a row from before the column was
\* added), empty, all high, only insurance_status low, one field from the
\* model, all on the threshold, one field not found
StoredScores ==
    { Null,
      [f \in {} |-> ScoreNone],
      [f \in ReviewFields |-> ScoreRegex],
      [f \in {"insurance_status"} |-> ScoreNone],
      [f \in {"full_name"} |-> ScoreLlm],
      [f \in ReviewFields |->
          IF f = "insurance_status" THEN ScoreRegex ELSE ReviewThreshold],
      [f \in ReviewFields |->
          IF f = "job_title" THEN ScoreNone ELSE ScoreRegex] }

\* the row with the sequence value seq and the given field_scores
ReviewRow(seq, fs) ==
    [InsertedRow(_next_eid(seq),
                 Document(Null, Null,
                          [full_name |-> DbText("FRANK"),
                           source_file |-> "a.pdf"]))
        EXCEPT !.field_scores = fs]

\* tables of up to MaxRows rows, with sequence values that go up or down
\* with the position and start low or just below a hundred
ReviewTables ==
    {<< >>} \cup
    UNION { { [i \in 1..n |->
                 ReviewRow(base + (IF up THEN i ELSE n + 1 - i), fs[i])] :
              fs \in [1..n -> StoredScores],
              up \in BOOLEAN, base \in {0, 98} } :
            n \in 1..MaxRows }

InitReview ==
    /\ PipeIdle
    /\ padsYear = TRUE
    /\ MfIdle
    /\ GtIdle
    /\ employees \in ReviewTables
    /\ eid_seq = 0
    /\ full_name_required = TRUE
    /\ calls = << >>
    /\ RvIdle
    /\ ApiIdle
    /\ JoIdle
    /\ DtIdle
    /\ PsIdle
    /\ FoIdle
    /\ TxIdle

\* needs_review = _build_needs_review(scores)
BuildNeedsReview ==
    /\ rv_needs_review = RvPending
    /\ \E sc \in ScoreMaps :
          /\ rv_scores' = [pending |-> FALSE, scores |-> sc]
          /\ rv_needs_review' =
                [pending |-> FALSE, list |-> _build_needs_review(sc)]
    /\ UNCHANGED rv_exceptions
    /\ UNCHANGED <<pipeVars, padsYear, mfVars, gtVars, dbVars>>
    /\ UNCHANGED apiVars
    /\ UNCHANGED joVars
    /\ UNCHANGED dtVars
    /\ UNCHANGED psVars
    /\ UNCHANGED foVars
    /\ UNCHANGED txVars

\* return fetch_exceptions()
FetchExceptions ==
    /\ rv_exceptions = RvPending
    /\ rv_exceptions' = [pending |-> FALSE, list |-> fetch_exceptions(employees)]
    /\ UNCHANGED <<rv_scores, rv_needs_review>>
    /\ UNCHANGED <<pipeVars, padsYear, mfVars, gtVars, dbVars>>
    /\ UNCHANGED apiVars
    /\ UNCHANGED joVars
    /\ UNCHANGED dtVars
    /\ UNCHANGED psVars
    /\ UNCHANGED foVars
    /\ UNCHANGED txVars

NextReview ==
    \/ BuildNeedsReview
    \/ FetchExceptions

SpecReview == InitReview /\ [][NextReview]_vars


---------------------------------------------------------------------------
(* Claims about the review rule                                            *)

\* the rule: score below 0.95 and the field is not insurance_status
Flagged(sc) ==
    { f \in DOMAIN sc : f # "insurance_status" /\ sc[f] < ReviewThreshold }

\* the stored rows that have at least one flagged field
RowsToReview ==
    { r \in DOMAIN employees :
        /\ employees[r].field_scores # Null
        /\ Flagged(employees[r].field_scores) # {} }

\* C17: _build_needs_review returns exactly the fields of the score map
\* with a score below 0.95 other than insurance_status, and
\* fetch_exceptions returns exactly the stored employees that have such a
\* field; rows without field_scores and rows whose only low score is
\* insurance_status are not returned.
C17_SameReviewRule ==
    /\ ~rv_needs_review.pending =>
          LET list == rv_needs_review.list
              sc == rv_scores.scores
          IN  /\ { list[i].field : i \in DOMAIN list } = Flagged(sc)
              /\ Len(list) = Cardinality(Flagged(sc))
              /\ \A i \in DOMAIN list : list[i].score = sc[list[i].field]
    /\ ~rv_exceptions.pending =>
          LET list == rv_exceptions.list
          IN  /\ { list[i] : i \in DOMAIN list } =
                    { employees[r] : r \in RowsToReview }
              /\ Len(list) = Cardinality(RowsToReview)

\* a score map with a field on the threshold, a field below it and a low
\* insurance_status; a table with a row to review next to a row whose only
\* low score is insurance_status or that has no field_scores
C17_Witness ==
    /\ ~rv_needs_review.pending
    /\ ~rv_exceptions.pending
    /\ rv_scores.scores = [full_name |-> ReviewThreshold,
                           job_title |-> ScoreLlm,
                           insurance_status |-> ScoreNone]
    /\ Len(rv_needs_review.list) = 1
    /\ Len(employees) = MaxRows
    /\ Len(rv_exceptions.list) = 1
    /\ \E r \in DOMAIN employees :
          \/ employees[r].field_scores = Null
          \/ employees[r].field_scores = [f \in {"insurance_status"} |-> ScoreNone]


\* C21: every entry of the list _build_needs_review returns carries the
\* field name, its score, the field's current value (current_value) and
\* an action, enter_manually for a score of 0.0 and spot_check for a score
\* of 0.85; the list is empty when every score other than
\* insurance_status is at least 0.95.
C21_EntriesCarryCurrentValue ==
    ~rv_needs_review.pending =>
        LET list == rv_needs_review.list
            sc == rv_scores.scores
        IN  /\ \A i \in DOMAIN list :
                  /\ {"field", "score", "current_value", "action"}
                        \subseteq DOMAIN list[i]
                  /\ list[i].score = ScoreNone => list[i].action = "enter_manually"
                  /\ list[i].score = ScoreLlm => list[i].action = "spot_check"
            /\ (\A f \in DOMAIN sc \ {"insurance_status"} :
                    sc[f] >= ReviewThreshold) => list = << >>


---------------------------------------------------------------------------
(* auth.py and routers: the HTTP endpoints                                 *)
(*                                                                         *)
(* A response is its status code and the employee records its body         *)
(* carries.  A file name is its text before the last four characters and   *)
(* those four characters.  Base64 text is what b64decode looks at: whether *)
(* it has characters outside the alphabet, whether the characters of the   *)
(* alphabet are correctly padded, and the bytes they encode.               *)

\* header X-API-Key of a request
NoHeader == [present |-> FALSE, value |-> ""]

Header(v) == [present |-> TRUE, value |-> v]

\* require_api_key: TRUE when it returns the key, FALSE when it raises 403
\* (if not api_key or not key or key != api_key)
require_api_key(api_key, key) ==
    ~(api_key = "" \/ ~key.present \/ key.value = "" \/ key.value # api_key)

\* the handlers that declare  _: str = Depends(require_api_key); the
\* parameter of list_exceptions has the function itself as default value
DependsOnKey ==
    {"list_employees", "get_employee", "ingest_contract",
     "ingest_contract_base64", "export_csv"}

Handlers == DependsOnKey \cup {"list_exceptions"}

Resp(code, data) == [status |-> code, data |-> data]

\* HTTPException(status_code=403) raised by the dependency
Forbidden == Resp(403, << >>)

\* SELECT * FROM employees ORDER BY employee_id on the SQLite file
list_employees(sq) ==
    IF ~sq.exists THEN Resp(500, << >>)
    ELSE Resp(200, fetch_all_employees(sq.rows))

\* _get_or_404
get_employee(sq, employee_id) ==
    IF ~sq.exists THEN Resp(500, << >>)
    ELSE LET found == SelectSeq(sq.rows,
                         LAMBDA row : row.employee_id = employee_id)
         IN  IF found = << >> THEN Resp(404, << >>)
             ELSE Resp(200, <<found[1]>>)

export_csv(sq) ==
    IF ~sq.exists THEN Resp(500, << >>)
    ELSE Resp(200, fetch_all_employees(sq.rows))

list_exceptions(rows) == Resp(200, fetch_exceptions(rows))

\* str.lower() on the last four characters of a file name
Lower(ending) ==
    IF ending \in {".pdf", ".PDF", ".Pdf"} THEN ".pdf"
    ELSE IF ending \in {".png", ".PNG"} THEN ".png"
    ELSE ending

\* filename.lower().endswith(".pdf")
EndsWithPdf(filename) == Lower(filename.ending) = ".pdf"

\* not file.filename
NoFilename(filename) ==
    ~filename.present \/ (filename.stem = "" /\ filename.ending = "")

\* body.data.split(",", 1)[-1] if "," in body.data else body.data
StripDataUrl(data) == [data EXCEPT !.dataurl = FALSE]

\* base64.b64decode(raw): characters outside the alphabet are discarded,
\* then the rest has to be padded correctly
b64decode(raw) ==
    IF raw.padded THEN [raised |-> FALSE, contents |-> raw.bytes]
    ELSE [raised |-> TRUE, contents |-> raw.bytes]

\* _parse_and_store(contents, filename): the outcomes of the call on the
\* table rows; parse_contract raises on bytes that are no PDF
StoreOutcome(resp, rows, seq, called) ==
    [response |-> resp, employees |-> rows, eid_seq |-> seq, called |-> called]

_parse_and_store(contents, filename, rows, seq, required) ==
    IF contents.kind # "pdf"
    THEN { StoreOutcome(Resp(500, << >>), rows, seq, {"parse_contract"}) }
    ELSE LET doc == Document(contents.passport_number,
                             contents.mohre_transaction_no,
                             [full_name   |-> contents.full_name,
                              source_file |-> filename])
         IN  { IF out.raised
               THEN StoreOutcome(Resp(500, << >>), out.employees, out.eid_seq,
                                 {"parse_contract", "upsert_employee"})
               ELSE StoreOutcome(
                        Resp(201, <<InsertedRow(out.employee_id, doc)>>),
                        out.employees, out.eid_seq,
                        {"parse_contract", "upsert_employee"}) :
               out \in upsert_employee(rows, seq, required, doc) }


---------------------------------------------------------------------------
(* Requests to the endpoints                                               *)

MaxRequests == 2

ServerKeys == {"", "secret"}

KeyHeaders == {NoHeader, Header(""), Header("wrong"), Header("secret")}

Filename(stem, ending) == [present |-> TRUE, stem |-> stem, ending |-> ending]

\* UploadFile.filename is None
AbsentFilename == [present |-> FALSE, stem |-> "", ending |-> ""]

Base64Filenames ==
    { Filename("contract", ".pdf"), Filename("SCAN", ".PDF"),
      Filename("photo", ".png") }

Filenames == Base64Filenames \cup {Filename("", ""), AbsentFilename}

\* the bytes of an upload: a contract, a PDF nothing is extracted from,
\* bytes that are no PDF
ContractBytes ==
    [kind |-> "pdf", passport_number |-> DbText("P1"),
     mohre_transaction_no |-> DbText("M1"), full_name |-> DbText("FRANK")]

BlankPdfBytes ==
    [kind |-> "pdf", passport_number |-> Null,
     mohre_transaction_no |-> Null, full_name |-> Null]

OtherBytes ==
    [kind |-> "other", passport_number |-> Null,
     mohre_transaction_no |-> Null, full_name |-> Null]

Uploaded == {ContractBytes, BlankPdfBytes, OtherBytes}

Base64Text(du, fo, pa, by) ==
    [dataurl |-> du, foreign |-> fo, padded |-> pa, bytes |-> by]

\* the string data of a base64 upload: the encoding of each upload; a data
\* URL; "abc"; "!!!invalid!!!"; "!!!!"; an encoding of a contract with
\* characters outside the alphabet in it
Base64Texts ==
    { Base64Text(FALSE, FALSE, TRUE, by) : by \in Uploaded }
    \cup { Base64Text(TRUE, FALSE, TRUE, ContractBytes),
           Base64Text(FALSE, FALSE, FALSE, OtherBytes),
           Base64Text(FALSE, TRUE, FALSE, OtherBytes),
           Base64Text(FALSE, TRUE, TRUE, OtherBytes),
           Base64Text(FALSE, TRUE, TRUE, ContractBytes) }

\* a stored employee one field of which came from the model
StoredBefore == ReviewRow(1, [f \in {"full_name"} |-> ScoreLlm])

SqliteFiles ==
    { [exists |-> FALSE, rows |-> << >>],
      [exists |-> TRUE, rows |-> << >>],
      [exists |-> TRUE, rows |-> <<StoredBefore>>] }

InitApi ==
    /\ PipeIdle
    /\ padsYear = TRUE
    /\ MfIdle
    /\ GtIdle
    /\ RvIdle
    /\ employees \in {<< >>, <<StoredBefore>>}
    /\ eid_seq = Len(employees)
    /\ full_name_required \in BOOLEAN
    /\ calls = << >>
    /\ hr_api_key \in ServerKeys
    /\ sqlite_employees \in SqliteFiles
    /\ request = NoRequest
    /\ response = NoResponse
    /\ handler_calls = {}
    /\ served = 0
    /\ JoIdle
    /\ DtIdle
    /\ PsIdle
    /\ FoIdle
    /\ TxIdle

\* the dependency of the handler raises 403
Rejects(req) ==
    req.endpoint \in DependsOnKey /\ ~require_api_key(hr_api_key, req.key)

\* one request: the dependencies of the handler, then its body, which
\* ends in one of the outcomes outs
Serve(req, outs) ==
    /\ served < MaxRequests
    /\ served' = served + 1
    /\ request' = req
    /\ IF Rejects(req)
       THEN /\ response' = Forbidden
            /\ handler_calls' = {}
            /\ UNCHANGED <<employees, eid_seq>>
       ELSE \E out \in outs :
            /\ response' = out.response
            /\ handler_calls' = out.called \cup {req.endpoint}
            /\ employees' = out.employees
            /\ eid_seq' = out.eid_seq
    /\ UNCHANGED <<hr_api_key, sqlite_employees, full_name_required, calls>>
    /\ UNCHANGED <<pipeVars, padsYear, mfVars, gtVars, rvVars>>
    /\ UNCHANGED joVars
    /\ UNCHANGED dtVars
    /\ UNCHANGED psVars
    /\ UNCHANGED foVars
    /\ UNCHANGED txVars

\* a body that only reads
Reads(resp) == {StoreOutcome(resp, employees, eid_seq, {})}

\* GET /employees
ListEmployees ==
    \E key \in KeyHeaders :
        Serve([endpoint |-> "list_employees", key |-> key],
              Reads(list_employees(sqlite_employees)))

\* GET /employees/{employee_id}
GetEmployee ==
    \E key \in KeyHeaders, seq \in 1..MaxRequests :
        Serve([endpoint |-> "get_employee", key |-> key,
               employee_id |-> _next_eid(seq)],
              Reads(get_employee(sqlite_employees, _next_eid(seq))))

\* GET /export/csv
ExportCsv ==
    \E key \in KeyHeaders :
        Serve([endpoint |-> "export_csv", key |-> key],
              Reads(export_csv(sqlite_employees)))

\* GET /exceptions
ListExceptions ==
    \E key \in KeyHeaders :
        Serve([endpoint |-> "list_exceptions", key |-> key],
              {StoreOutcome(list_exceptions(employees), employees, eid_seq,
                            {"fetch_exceptions"})})

\* POST /ingest
IngestContract ==
    \E key \in KeyHeaders, filename \in Filenames, contents \in Uploaded :
        Serve([endpoint |-> "ingest_contract", key |-> key,
               filename |-> filename, contents |-> contents],
              IF NoFilename(filename) \/ ~EndsWithPdf(filename)
              THEN Reads(Resp(400, << >>))
              ELSE _parse_and_store(contents, filename, employees, eid_seq,
                                    full_name_required))

\* POST /ingest/base64
IngestContractBase64 ==
    \E key \in KeyHeaders, filename \in Base64Filenames, data \in Base64Texts :
        Serve([endpoint |-> "ingest_contract_base64", key |-> key,
               filename |-> filename, data |-> data],
              IF ~EndsWithPdf(filename)
              THEN Reads(Resp(400, << >>))
              ELSE IF b64decode(StripDataUrl(data)).raised
              THEN Reads(Resp(400, << >>))
              ELSE _parse_and_store(b64decode(StripDataUrl(data)).contents,
                                    filename, employees, eid_seq,
                                    full_name_required))

NextApi ==
    \/ ListEmployees
    \/ GetEmployee
    \/ ExportCsv
    \/ ListExceptions
    \/ IngestContract
    \/ IngestContractBase64

SpecApi == InitApi /\ [][NextApi]_vars


---------------------------------------------------------------------------
(* Claims about the endpoints                                              *)

Answered == request # NoRequest

\* the request carries the key configured on the server
CarriesKey == require_api_key(hr_api_key, request.key)

\* C19: a request to a data endpoint that does not carry the configured
\* API key is rejected with 403, no handler runs for it and no employee
\* record is in the response; with no key configured every request is
\* rejected.
C19_AuthFailClosed ==
    (Answered /\ request.endpoint \in Handlers /\ ~CarriesKey) =>
        /\ response = Forbidden
        /\ handler_calls = {}

\* text that is base64: only characters of the alphabet, correctly padded
\* (after the data URL prefix, if any)
IsValidBase64(data) == ~data.foreign /\ data.padded

\* the upload the claim says is refused
BadUpload ==
    \/ /\ request.endpoint = "ingest_contract"
       /\ \/ NoFilename(request.filename)
          \/ ~EndsWithPdf(request.filename)
    \/ /\ request.endpoint = "ingest_contract_base64"
       /\ \/ ~EndsWithPdf(request.filename)
          \/ ~IsValidBase64(request.data)

\* C20: POST /ingest and POST /ingest/base64 answer 400 when the file name
\* does not end in .pdf in any letter case, POST /ingest/base64 answers
\* 400 when data is not valid base64, and in these cases neither
\* parse_contract nor upsert_employee is called.
C20_BadUploadIs400 ==
    (Answered /\ CarriesKey /\ BadUpload) =>
        /\ response.status = 400
        /\ "parse_contract" \notin handler_calls
        /\ "upsert_employee" \notin handler_calls

\* C29: an employee upsert_employee stored is visible to the read
\* endpoints: GET /employees/E answers with the record of a stored
\* employee_id E and not with 404, and GET /employees and the CSV export
\* contain every stored record.
C29_StoredIsVisibleToReads ==
    (Answered /\ CarriesKey) =>
        /\ request.endpoint \in {"list_employees", "export_csv"} =>
              /\ response.status = 200
              /\ \A r \in DOMAIN employees :
                    \E k \in DOMAIN response.data :
                        response.data[k] = employees[r]
        /\ request.endpoint = "get_employee" =>
              \A r \in DOMAIN employees :
                  employees[r].employee_id = request.employee_id =>
                      response = Resp(200, <<employees[r]>>)


---------------------------------------------------------------------------
(* A single call of _extract_job_offer_dates on bounded texts              *)

\* longest duration written in digits
MaxYears == 4

\* signing dates: first, leap and last day of a month, in a year before
\* 1000, a common year, a leap year, a leap year MaxYears before a century
\* and a year close to datetime.MAXYEAR
JoSigningYears == {999, 2023, 2024, 2096, 9997}

JoSignings ==
    { << >> } \cup
    { <<RawDMY(d, m, y)>> : d \in {1, 29, 31}, m \in {1, 2},
                            y \in JoSigningYears }

\* what the digit and the word duration pattern capture first
JoDurations ==
    { [digits |-> dg, word |-> w] :
        dg \in { << >> } \cup { <<n>> : n \in 0..MaxYears },
        w \in { << >>, <<"one">>, <<"five">> } }

JoTexts ==
    { MakeText({}, NoCaptures("date_of_birth"),
               NoCaptures("contract_start_date"),
               NoCaptures("contract_expiry_date"),
               FALSE, TRUE, signing, dur) :
        signing \in JoSignings, dur \in JoDurations }

InitDates ==
    /\ PipeIdle
    /\ padsYear \in BOOLEAN
    /\ MfIdle
    /\ GtIdle
    /\ DbIdle
    /\ RvIdle
    /\ ApiIdle
    /\ jo_text \in JoTexts
    /\ jo_result = JoPending
    /\ DtIdle
    /\ PsIdle
    /\ FoIdle
    /\ TxIdle

\* jo_start, jo_expiry = _extract_job_offer_dates(text)
ExtractJobOfferDates ==
    /\ jo_result = JoPending
    /\ jo_result' = _extract_job_offer_dates(jo_text, padsYear)
    /\ UNCHANGED <<jo_text, padsYear>>
    /\ UNCHANGED <<pipeVars, mfVars, gtVars, dbVars, rvVars>>
    /\ UNCHANGED apiVars
    /\ UNCHANGED dtVars
    /\ UNCHANGED psVars
    /\ UNCHANGED foVars
    /\ UNCHANGED txVars

NextDates == ExtractJobOfferDates

SpecDates == InitDates /\ [][NextDates]_vars

---------------------------------------------------------------------------
(* Claims about the derived dates                                          *)

\* the signing date the text states, if it names a calendar date
SigningDate ==
    IF jo_text.signing # << >> /\ ParsesDMY(jo_text.signing[1])
    THEN jo_text.signing
    ELSE << >>

\* the day a date falls on when moved to year y
DayInYear(d, m, y) == IF d = 29 /\ m = 2 /\ ~IsLeap(y) THEN 28 ELSE d

\* C22: _extract_job_offer_dates returns the signing date as start and
\* the signing date moved forward by the duration in whole years as
\* expiry, keeping day and month, 29 February becoming 28 February in a
\* year that is not a leap year; with no signing date it derives neither
\* date, and with no positive duration only the start.
C22_ExpiryIsSigningPlusYears ==
    jo_result # JoPending =>
        LET years == DurationYears(jo_text) IN
        /\ ~jo_result.raised
        /\ SigningDate = << >> =>
              /\ jo_result.start = Null
              /\ jo_result.expiry = Null
        /\ SigningDate # << >> =>
              LET s == SigningDate[1] IN
              /\ jo_result.start # Null
              /\ <<jo_result.start.d, jo_result.start.m, jo_result.start.y>>
                    = <<s.d, s.m, s.y>>
              /\ years = NoYears => jo_result.expiry = Null
              /\ years # NoYears =>
                    /\ jo_result.expiry # Null
                    /\ <<jo_result.expiry.d, jo_result.expiry.m,
                         jo_result.expiry.y>>
                          = <<DayInYear(s.d, s.m, s.y + years), s.m,
                              s.y + years>>

\* the derived-date step wrote contract_expiry_date of the result: the
\* document is a job offer, no rule found an expiry date and the signing
\* date and the duration gave one
ExpiryWasDerived ==
    /\ Returned
    /\ result.doc_type = "job_offer"
    /\ _match_field("contract_expiry_date", text, padsYear).score = ScoreNone
    /\ _extract_job_offer_dates(text, padsYear).expiry # Null

\* C23: in a result of parse_contract for a job offer whose
\* contract_expiry_date the derived-date step produced,
\* contract_expiry_date is the result's contract_start_date moved forward
\* by the extracted duration in whole years (29 February becoming
\* 28 February in a common year), also when a regex rule resolved
\* contract_start_date at score 1.0.
C23_ExpiryIsResultStartPlusYears ==
    ExpiryWasDerived =>
        LET start == result.fields["contract_start_date"]
            expiry == result.fields["contract_expiry_date"]
            years == DurationYears(text)
        IN  /\ start # Null
            /\ expiry # Null
            /\ <<expiry.d, expiry.m, expiry.y>> =
                  <<DayInYear(start.d, start.m, start.y + years), start.m,
                    start.y + years>>

\* the derived-date step of a run on the text fills date f
DateIsDerived(f) ==
    LET jo == _extract_job_offer_dates(text, padsYear) IN
    /\ _detect_doc_type(text) = "job_offer"
    /\ \/ f = "contract_start_date" /\ jo.start # Null
       \/ f = "contract_expiry_date" /\ jo.expiry # Null

\* the fields neither a rule nor the derived-date step resolves
UnresolvedAfterDerive ==
    { f \in PatternFields :
        /\ _match_field(f, text, padsYear).score = ScoreNone
        /\ ~DateIsDerived(f) }

\* C24: in one run of parse_contract _llm_extract_fields is called at
\* most once, not before field matching and the derived-date step are
\* over, and only if some field has score 0.0 then; it is asked for
\* exactly the fields with score 0.0 then, so never for a date the
\* derived-date step filled.
C24_FallbackOnceAfterDerive ==
    /\ llm_calls <= 1
    /\ pc \in {"start", "match", "detect", "derive", "llm"} =>
          /\ llm_calls = 0
          /\ llm_outcome = NotCalled
    /\ llm_calls = 1 =>
          /\ llm_requested # << >>
          /\ Len(llm_requested) = Cardinality(ToSet(llm_requested))
          /\ ToSet(llm_requested) = UnresolvedAfterDerive
          /\ \A f \in ToSet(llm_requested) : ~DateIsDerived(f)
    /\ (pc \in {"finish", "done"} /\ llm_calls = 0) =>
          UnresolvedAfterDerive = {}

\* a job offer whose two dates were derived while other fields stayed
\* unresolved: the model was asked once, for the other fields only
C24_Witness ==
    /\ pc = "done"
    /\ llm_calls = 1
    /\ result.doc_type = "job_offer"
    /\ DateIsDerived("contract_start_date")
    /\ DateIsDerived("contract_expiry_date")
    /\ _match_field("contract_expiry_date", text, padsYear).score = ScoreNone
    /\ "contract_expiry_date" \notin ToSet(llm_requested)
    /\ "full_name" \in ToSet(llm_requested)
    /\ llm_outcome.kind = "object"


---------------------------------------------------------------------------
(* A single call of _detect_doc_type on bounded texts                      *)
(*                                                                         *)
(* A text is a sequence of words, two neighbours being separated by one    *)
(* space; the word "/" stands for a line break between its neighbours.     *)

\* words per text
MaxWords == 4

DocWords ==
    {"EMPLOYMENT", "Employment", "CONTRACT", "contract",
     "JOB", "job", "OFFER", "Offer", "/"}

\* str.upper() of a word
Upper(w) ==
    CASE w \in {"EMPLOYMENT", "Employment"} -> "EMPLOYMENT"
      [] w \in {"CONTRACT", "contract"}     -> "CONTRACT"
      [] w \in {"JOB", "job"}               -> "JOB"
      [] w \in {"OFFER", "Offer"}           -> "OFFER"
      [] OTHER                              -> w

\* variant: re.search(marker, text) without re.IGNORECASE
SearchCaseSensitive(marker, words) ==
    \E i \in 1..(Len(words) - 1) :
        /\ words[i] = marker[1]
        /\ words[i + 1] = marker[2]

\* re.search(marker, text, re.IGNORECASE) finds the two words of marker
\* with one space between them
SearchIgnoreCase(marker, words) ==
    \E i \in 1..(Len(words) - 1) :
        /\ Upper(words[i]) = marker[1]
        /\ Upper(words[i + 1]) = marker[2]

\* what the two searches of _detect_doc_type find in a text
MarkersOf(words) ==
    [EmptyText EXCEPT
        !.hasEC = SearchIgnoreCase(<<"EMPLOYMENT", "CONTRACT">>, words),
        !.hasJO = SearchIgnoreCase(<<"JOB", "OFFER">>, words)]

DocTexts == UNION { [1..n -> DocWords] : n \in 0..MaxWords }

InitDocType ==
    /\ PipeIdle
    /\ padsYear = TRUE
    /\ MfIdle
    /\ GtIdle
    /\ DbIdle
    /\ RvIdle
    /\ ApiIdle
    /\ JoIdle
    /\ dt_text \in DocTexts
    /\ dt_result = "unset"
    /\ PsIdle
    /\ FoIdle
    /\ TxIdle

\* doc_type = _detect_doc_type(text)
DetectDocTypeCall ==
    /\ dt_result = "unset"
    /\ dt_result' = _detect_doc_type(MarkersOf(dt_text))
    /\ UNCHANGED dt_text
    /\ UNCHANGED <<pipeVars, padsYear, mfVars, gtVars, dbVars, rvVars>>
    /\ UNCHANGED apiVars
    /\ UNCHANGED joVars
    /\ UNCHANGED psVars
    /\ UNCHANGED foVars
    /\ UNCHANGED txVars

NextDocType == DetectDocTypeCall

SpecDocType == InitDocType /\ [][NextDocType]_vars

---------------------------------------------------------------------------
(* Claims about the document type                                          *)

\* the text contains the two words next to each other, in any letter case
ContainsMarker(first, second) ==
    \E i \in DOMAIN dt_text :
        /\ i + 1 \in DOMAIN dt_text
        /\ dt_text[i] \in first
        /\ dt_text[i + 1] \in second

ContainsEmploymentContract ==
    ContainsMarker({"EMPLOYMENT", "Employment"}, {"CONTRACT", "contract"})

ContainsJobOffer ==
    ContainsMarker({"JOB", "job"}, {"OFFER", "Offer"})

\* C26: _detect_doc_type returns employment_contract whenever the text
\* contains EMPLOYMENT CONTRACT in any letter case, also when it contains
\* JOB OFFER too; job_offer when it contains only JOB OFFER; unknown when
\* it contains neither.
C26_DocTypeByMarker ==
    dt_result # "unset" =>
        /\ ContainsEmploymentContract => dt_result = "employment_contract"
        /\ (ContainsJobOffer /\ ~ContainsEmploymentContract) =>
              dt_result = "job_offer"
        /\ (~ContainsJobOffer /\ ~ContainsEmploymentContract) =>
              dt_result = "unknown"

\* a text with both markers, the job offer marker first and the contract
\* marker in mixed case
C26_Witness ==
    /\ dt_result = "employment_contract"
    /\ Len(dt_text) = MaxWords
    /\ ContainsJobOffer
    /\ dt_text[1] \in {"JOB", "job"}
    /\ dt_text[Len(dt_text) - 1] = "Employment"
    /\ dt_text[Len(dt_text)] = "contract"


---------------------------------------------------------------------------
(* routers/ingest.py: the steps of a single _parse_and_store call          *)

\* the name NamedTemporaryFile gives the file
TmpPath == "tmp.pdf"

PsUploads ==
    { [contents |-> contents, filename |-> filename] :
        contents \in Uploaded, filename \in {"contract.pdf", "SCAN.PDF"} }

\* the extraction result of an upload parse_contract can read
PsDocument(up) ==
    Document(up.contents.passport_number, up.contents.mohre_transaction_no,
             [full_name   |-> up.contents.full_name,
              source_file |-> up.filename])

InitStore ==
    /\ PipeIdle
    /\ padsYear = TRUE
    /\ MfIdle
    /\ GtIdle
    /\ employees \in {<< >>, <<StoredBefore>>}
    /\ eid_seq = Len(employees)
    /\ full_name_required \in BOOLEAN
    /\ calls = << >>
    /\ RvIdle
    /\ ApiIdle
    /\ JoIdle
    /\ DtIdle
    /\ ps_pc = "call"
    /\ ps_upload \in PsUploads
    /\ ps_exception = FALSE
    /\ tmp_files = {}
    /\ FoIdle
    /\ TxIdle

\* with tempfile.NamedTemporaryFile(suffix=".pdf", delete=False) as tmp:
\* the file is created, or the call raises
CreateTemp ==
    /\ ps_pc = "call"
    /\ \/ /\ tmp_files' = tmp_files \cup {TmpPath}
          /\ ps_pc' = "write"
       \/ /\ ps_pc' = "raised"
          /\ UNCHANGED tmp_files
    /\ UNCHANGED <<ps_upload, ps_exception>>
    /\ UNCHANGED <<pipeVars, padsYear, mfVars, gtVars, dbVars, rvVars>>
    /\ UNCHANGED <<apiVars, joVars, dtVars, foVars, txVars>>

\* tmp.write(contents); tmp_path = Path(tmp.name); leaving the with block
\* closes the file and, delete being False, keeps it.  write raises
\* OSError when the device is full.
WriteContents ==
    /\ ps_pc = "write"
    /\ \/ ps_pc' = "parse"
       \/ ps_pc' = "raised"
    /\ UNCHANGED <<ps_upload, ps_exception, tmp_files>>
    /\ UNCHANGED <<pipeVars, padsYear, mfVars, gtVars, dbVars, rvVars>>
    /\ UNCHANGED <<apiVars, joVars, dtVars, foVars, txVars>>

\* try: result = parse_contract(tmp_path); bytes that are no PDF make the
\* extractor raise
ParseContract ==
    /\ ps_pc = "parse"
    /\ ps_exception' = (ps_upload.contents.kind # "pdf")
    /\ ps_pc' = "finally"
    /\ UNCHANGED <<ps_upload, tmp_files>>
    /\ UNCHANGED <<pipeVars, padsYear, mfVars, gtVars, dbVars, rvVars>>
    /\ UNCHANGED <<apiVars, joVars, dtVars, foVars, txVars>>

\* finally: tmp_path.unlink(missing_ok=True), then the exception in flight
\* goes on
Unlink ==
    /\ ps_pc = "finally"
    /\ tmp_files' = tmp_files \ {TmpPath}
    /\ ps_pc' = IF ps_exception THEN "raised" ELSE "upsert"
    /\ UNCHANGED <<ps_upload, ps_exception>>
    /\ UNCHANGED <<pipeVars, padsYear, mfVars, gtVars, dbVars, rvVars>>
    /\ UNCHANGED <<apiVars, joVars, dtVars, foVars, txVars>>

\* employee_id = upsert_employee(...), needs_review, return
StoreAndReturn ==
    /\ ps_pc = "upsert"
    /\ \E out \in upsert_employee(employees, eid_seq, full_name_required,
                                  PsDocument(ps_upload)) :
          /\ employees' = out.employees
          /\ eid_seq' = out.eid_seq
          /\ calls' = Append(calls, [doc         |-> PsDocument(ps_upload),
                                     raised      |-> out.raised,
                                     employee_id |-> out.employee_id,
                                     rows        |-> Len(out.employees)])
          /\ ps_pc' = IF out.raised THEN "raised" ELSE "returned"
    /\ UNCHANGED full_name_required
    /\ UNCHANGED <<ps_upload, ps_exception, tmp_files>>
    /\ UNCHANGED <<pipeVars, padsYear, mfVars, gtVars, rvVars>>
    /\ UNCHANGED <<apiVars, joVars, dtVars, foVars, txVars>>

NextStore ==
    \/ CreateTemp
    \/ WriteContents
    \/ ParseContract
    \/ Unlink
    \/ StoreAndReturn

SpecStore == InitStore /\ [][NextStore]_vars

---------------------------------------------------------------------------
(* Claims about the temporary file                                         *)

\* C27: the temporary file _parse_and_store creates does not exist when
\* _parse_and_store returns or raises, and is removed before
\* upsert_employee is called.
C27_TempFileRemoved ==
    ps_pc \in {"upsert", "returned", "raised"} => TmpPath \notin tmp_files


---------------------------------------------------------------------------
(* ingest_folder.py: a single ingest_folder call                           *)

\* files per folder
MaxPdfs == 3

\* the keys of the dict parse_contract returns
ResultKeys == {"fields", "field_scores", "confidence", "ocr_used", "doc_type"}

\* sorted(folder.glob("*.pdf")): each file a contract, a PDF nothing is
\* extracted from, or a file parse_contract raises on
Folders == UNION { [1..n -> Uploaded] : n \in 0..MaxPdfs }

NoCounts == [total |-> 0, stored |-> 0, partial |-> 0, failed |-> 0]

\* the extraction result of the file at position i
FolderDocument(pdfs, i) ==
    Document(pdfs[i].passport_number, pdfs[i].mohre_transaction_no,
             [full_name |-> pdfs[i].full_name, source_file |-> i])

InitFolder ==
    /\ PipeIdle
    /\ padsYear = TRUE
    /\ MfIdle
    /\ GtIdle
    /\ employees \in {<< >>, <<StoredBefore>>}
    /\ eid_seq = Len(employees)
    /\ full_name_required \in BOOLEAN
    /\ calls = << >>
    /\ RvIdle
    /\ ApiIdle
    /\ JoIdle
    /\ DtIdle
    /\ PsIdle
    /\ fo_pc = "call"
    /\ fo_pdfs \in Folders
    /\ fo_done = 0
    /\ fo_summary = NoCounts
    /\ TxIdle

\* pdfs = sorted(folder.glob("*.pdf")); the early return for an empty
\* folder; total = len(pdfs)
ListPdfs ==
    /\ fo_pc = "call"
    /\ IF fo_pdfs = << >>
       THEN /\ fo_pc' = "returned"
            /\ UNCHANGED fo_summary
       ELSE /\ fo_pc' = "loop"
            /\ fo_summary' = [NoCounts EXCEPT !.total = Len(fo_pdfs)]
    /\ UNCHANGED <<fo_pdfs, fo_done>>
    /\ UNCHANGED <<pipeVars, padsYear, mfVars, gtVars, dbVars, rvVars>>
    /\ UNCHANGED <<apiVars, joVars, dtVars, psVars, txVars>>

\* one iteration of "for pdf in pdfs": parse_contract raising is counted
\* as failed; otherwise result["min_field_score"] is read, upsert_employee
\* is called and the file is counted as stored.  An exception outside the
\* try leaves ingest_folder.
ProcessPdf ==
    /\ fo_pc = "loop"
    /\ fo_done < Len(fo_pdfs)
    /\ LET i == fo_done + 1
           doc == FolderDocument(fo_pdfs, i)
       IN  IF fo_pdfs[i].kind # "pdf"
           THEN /\ fo_summary' = [fo_summary EXCEPT !.failed = @ + 1]
                /\ fo_done' = i
                /\ fo_pc' = "loop"
                /\ UNCHANGED <<employees, eid_seq, calls>>
           ELSE IF "min_field_score" \notin ResultKeys
           THEN /\ fo_pc' = "raised"                     \* KeyError
                /\ UNCHANGED <<fo_done, fo_summary>>
                /\ UNCHANGED <<employees, eid_seq, calls>>
           ELSE \E out \in upsert_employee(employees, eid_seq,
                                           full_name_required, doc) :
                /\ employees' = out.employees
                /\ eid_seq' = out.eid_seq
                /\ calls' = Append(calls,
                                   [doc         |-> doc,
                                    raised      |-> out.raised,
                                    employee_id |-> out.employee_id,
                                    rows        |-> Len(out.employees)])
                /\ IF out.raised
                   THEN /\ fo_pc' = "raised"
                        /\ UNCHANGED <<fo_done, fo_summary>>
                   ELSE /\ fo_pc' = "loop"
                        /\ fo_done' = i
                        /\ fo_summary' =
                              [fo_summary EXCEPT
                                 !.stored = @ + 1,
                                 !.partial =
                                    IF Flagged(doc.field_scores) # {}
                                    THEN @ + 1 ELSE @]
    /\ UNCHANGED <<fo_pdfs, full_name_required>>
    /\ UNCHANGED <<pipeVars, padsYear, mfVars, gtVars, rvVars>>
    /\ UNCHANGED <<apiVars, joVars, dtVars, psVars, txVars>>

\* after the loop: the partial-records file, then return of the summary
ReturnSummary ==
    /\ fo_pc = "loop"
    /\ fo_done = Len(fo_pdfs)
    /\ fo_pc' = "returned"
    /\ UNCHANGED <<fo_pdfs, fo_done, fo_summary>>
    /\ UNCHANGED <<pipeVars, padsYear, mfVars, gtVars, dbVars, rvVars>>
    /\ UNCHANGED <<apiVars, joVars, dtVars, psVars, txVars>>

NextFolder ==
    \/ ListPdfs
    \/ ProcessPdf
    \/ ReturnSummary

SpecFolder == InitFolder /\ [][NextFolder]_vars

---------------------------------------------------------------------------
(* Claims about ingest_folder                                              *)

\* the positions of the files parse_contract returns a result for
ParsingFiles == { i \in DOMAIN fo_pdfs : fo_pdfs[i].kind = "pdf" }

\* C28: ingest_folder goes through every PDF of the folder: a file whose
\* parsing raises is counted as failed and the files after it are still
\* processed; every file that parses is stored through upsert_employee
\* with the confidence of its result and counted as stored; the summary
\* returned has total = stored + failed and partial <= stored.
C28_FolderSummary ==
    fo_pc \in {"returned", "raised"} =>
        /\ fo_pc = "returned"
        /\ fo_done = Len(fo_pdfs)
        /\ fo_summary.total = Len(fo_pdfs)
        /\ fo_summary.failed = Len(fo_pdfs) - Cardinality(ParsingFiles)
        /\ fo_summary.stored = Cardinality(ParsingFiles)
        /\ fo_summary.total = fo_summary.stored + fo_summary.failed
        /\ fo_summary.partial <= fo_summary.stored
        /\ \A i \in ParsingFiles :
              \E c \in DOMAIN calls :
                 /\ calls[c].doc = FolderDocument(fo_pdfs, i)
                 /\ calls[c].doc.confidence =
                       Confidence(FolderDocument(fo_pdfs, i).field_scores)


---------------------------------------------------------------------------
(* db.py: two upsert_employee calls running concurrently                   *)
(*                                                                         *)
(* Each call has its own connection and transaction (_get_conn), at the    *)
(* default isolation level READ COMMITTED: a statement sees the rows       *)
(* committed before it starts; an INSERT whose key another transaction has *)
(* inserted and not yet committed waits for that transaction to end.       *)

\* passport_number and mohre_transaction_no are UNIQUE; NULL equals no key
UniqueConflict(row, other) ==
    \/ /\ row.passport_number # Null
       /\ row.passport_number = other.passport_number
    \/ /\ row.mohre_transaction_no # Null
       /\ row.mohre_transaction_no = other.mohre_transaction_no

\* the INSERT of t waits: a transaction still open inserted one of its keys
InsertWaits(t, row) ==
    \E u \in Txs \ {t} :
        /\ tx_pc[u] = "commit"
        /\ tx_pending[u].kind = "insert"
        /\ UniqueConflict(row, tx_pending[u].row)

InitTx ==
    /\ PipeIdle
    /\ padsYear = TRUE
    /\ MfIdle
    /\ GtIdle
    /\ employees = << >>
    /\ eid_seq = 0
    /\ full_name_required \in BOOLEAN
    /\ calls = << >>
    /\ RvIdle
    /\ ApiIdle
    /\ JoIdle
    /\ DtIdle
    /\ PsIdle
    /\ FoIdle
    /\ tx_pc = [t \in Txs |-> "select"]
    /\ tx_doc \in [Txs -> Documents]
    /\ tx_employee_id = [t \in Txs |-> Null]
    /\ tx_pending = [t \in Txs |-> NoWrite]

\* SELECT employee_id FROM employees WHERE ...; existing = cur.fetchone()
TxSelect(t) ==
    /\ tx_pc[t] = "select"
    /\ LET existing == MatchingRows(employees, tx_doc[t].fields) IN
       IF existing = {}
       THEN /\ tx_pc' = [tx_pc EXCEPT ![t] = "nextval"]
            /\ UNCHANGED tx_employee_id
       ELSE \E i \in existing :
            /\ tx_employee_id' =
                  [tx_employee_id EXCEPT ![t] = employees[i].employee_id]
            /\ tx_pc' = [tx_pc EXCEPT ![t] = "update"]
    /\ UNCHANGED <<tx_doc, tx_pending>>
    /\ UNCHANGED <<pipeVars, padsYear, mfVars, gtVars, dbVars, rvVars>>
    /\ UNCHANGED <<apiVars, joVars, dtVars, psVars, foVars>>

\* UPDATE employees SET ... WHERE employee_id=%s
TxUpdate(t) ==
    /\ tx_pc[t] = "update"
    /\ IF ViolatesNotNull(full_name_required, tx_doc[t].fields)
       THEN /\ tx_pc' = [tx_pc EXCEPT ![t] = "raised"]
            /\ UNCHANGED tx_pending
       ELSE /\ tx_pending' = [tx_pending EXCEPT ![t] = [kind |-> "update"]]
            /\ tx_pc' = [tx_pc EXCEPT ![t] = "commit"]
    /\ UNCHANGED <<tx_doc, tx_employee_id>>
    /\ UNCHANGED <<pipeVars, padsYear, mfVars, gtVars, dbVars, rvVars>>
    /\ UNCHANGED <<apiVars, joVars, dtVars, psVars, foVars>>

\* employee_id = _next_eid(cur): nextval is not undone by a rollback
TxNextEid(t) ==
    /\ tx_pc[t] = "nextval"
    /\ eid_seq' = eid_seq + 1
    /\ tx_employee_id' = [tx_employee_id EXCEPT ![t] = _next_eid(eid_seq + 1)]
    /\ tx_pc' = [tx_pc EXCEPT ![t] = "insert"]
    /\ UNCHANGED <<tx_doc, tx_pending>>
    /\ UNCHANGED <<employees, full_name_required, calls>>
    /\ UNCHANGED <<pipeVars, padsYear, mfVars, gtVars, rvVars>>
    /\ UNCHANGED <<apiVars, joVars, dtVars, psVars, foVars>>

\* INSERT INTO employees (...): IntegrityError on a NULL full_name or on a
\* key a committed row has
TxInsert(t) ==
    /\ tx_pc[t] = "insert"
    /\ LET row == InsertedRow(tx_employee_id[t], tx_doc[t]) IN
       /\ ~InsertWaits(t, row)
       /\ IF \/ ViolatesNotNull(full_name_required, tx_doc[t].fields)
             \/ \E r \in DOMAIN employees : UniqueConflict(row, employees[r])
          THEN /\ tx_pc' = [tx_pc EXCEPT ![t] = "raised"]
               /\ UNCHANGED tx_pending
          ELSE /\ tx_pending' = [tx_pending EXCEPT
                                    ![t] = [kind |-> "insert", row |-> row]]
               /\ tx_pc' = [tx_pc EXCEPT ![t] = "commit"]
    /\ UNCHANGED <<tx_doc, tx_employee_id>>
    /\ UNCHANGED <<pipeVars, padsYear, mfVars, gtVars, dbVars, rvVars>>
    /\ UNCHANGED <<apiVars, joVars, dtVars, psVars, foVars>>

\* conn.commit() on leaving _get_conn, then return employee_id
TxCommit(t) ==
    /\ tx_pc[t] = "commit"
    /\ employees' =
          IF tx_pending[t].kind = "insert"
          THEN Append(employees, tx_pending[t].row)
          ELSE [r \in DOMAIN employees |->
                   IF employees[r].employee_id = tx_employee_id[t]
                   THEN UpdatedRow(employees[r], tx_doc[t])
                   ELSE employees[r]]
    /\ tx_pc' = [tx_pc EXCEPT ![t] = "returned"]
    /\ UNCHANGED <<tx_doc, tx_employee_id, tx_pending>>
    /\ UNCHANGED <<eid_seq, full_name_required, calls>>
    /\ UNCHANGED <<pipeVars, padsYear, mfVars, gtVars, rvVars>>
    /\ UNCHANGED <<apiVars, joVars, dtVars, psVars, foVars>>

NextTx ==
    \E t \in Txs :
        \/ TxSelect(t)
        \/ TxUpdate(t)
        \/ TxNextEid(t)
        \/ TxInsert(t)
        \/ TxCommit(t)

SpecTx == InitTx /\ [][NextTx]_vars

---------------------------------------------------------------------------
(* Claims about concurrent calls                                           *)

\* both calls are over
BothDone == \A t \in Txs : tx_pc[t] \in {"returned", "raised"}

\* C30: two upsert_employee calls that carry the same dedup key, not
\* stored before, and run in separate transactions both complete without
\* error and return the same employee_id, and afterwards exactly one
\* employee row has that key.
C30_ConcurrentUpsertsAgree ==
    (/\ BothDone
     /\ SharesKey(tx_doc[1].fields, tx_doc[2].fields)
     /\ \A t \in Txs : ~ViolatesNotNull(full_name_required, tx_doc[t].fields)) =>
        /\ \A t \in Txs : tx_pc[t] = "returned"
        /\ tx_employee_id[1] = tx_employee_id[2]
        /\ Cardinality({ r \in DOMAIN employees :
                           SharesKey(tx_doc[1].fields, employees[r]) }) = 1

====
